---- MODULE Spec2Model ----
(***************************************************************************)
(* Model of the conversation/tool orchestration engine of local_brain:     *)
(* the turn loop run_conversation (llm.py), the conversation store         *)
(* (conversations.py), the summary index (conversation_index.py), the      *)
(* signal based Timeout guard (timeout.py) and the consensus fan-out       *)
(* call_consensus_query (llm.py).                                          *)
(***************************************************************************)
EXTENDS Integers, Sequences, FiniteSets, TLC

(***************************************************************************)
(* Bounds of the model.                                                    *)
(***************************************************************************)
MaxTurns == 2      \* turns started in one behaviour
MaxClock == 2      \* seconds the wall clock can show (ids are derived from it)
MaxCalls == 2      \* tool-call requests one model response can carry
MaxOps == 3        \* store calls started by the threads of one behaviour

(***************************************************************************)
(* Identifiers.  generate_conversation_id formats the wall clock with a    *)
(* resolution of one second, so a generated id is the clock value.  A      *)
(* caller may pass any id, also one that has no record (parallel_client    *)
(* builds its own from the clock).  NoId is conversation_id = None.        *)
(***************************************************************************)
NoId == 0
Ids == 1..MaxClock

(***************************************************************************)
(* Tool registry: the names run_conversation dispatches on, each with the  *)
(* deadline of its `with Timeout(n)` block.                                *)
(***************************************************************************)
ToolTimeout ==
    [ wikipedia_search           |-> 30,
      web_search                 |-> 30,
      call_grok                  |-> 600,
      call_openai                |-> 600,
      call_gemini                |-> 600,
      call_claude                |-> 600,
      call_consensus_query       |-> 900,
      call_superconsensus        |-> 1800,
      lookup_past_conversations  |-> 30,
      read_file                  |-> 30,
      write_file                 |-> 30,
      list_directory             |-> 30,
      grep_files                 |-> 60,
      find_files                 |-> 60,
      head_file                  |-> 30,
      execute_python_code        |-> 60,
      clear_conversation_history |-> 30,
      list_conversations         |-> 30 ]

Registered == DOMAIN ToolTimeout

\* Handlers whose whole body runs inside `try: ... except Exception`, so that
\* every exception raised in the body comes back as an {"error": ...} payload.
\* wikipedia_search is not one of them (its fallback search runs inside an
\* except block), nor lookup_past_conversations (no try at all), nor the two
\* consensus tools (their scratch file is written outside any try).
CatchesAll ==
    { "web_search", "call_grok", "call_openai", "call_gemini", "call_claude",
      "read_file", "write_file", "list_directory", "grep_files", "find_files",
      "head_file", "execute_python_code", "clear_conversation_history",
      "list_conversations" }

\* Handlers that run_conversation calls without **function_args.
NoArgs == { "clear_conversation_history", "list_conversations" }

(***************************************************************************)
(* Messages.                                                               *)
(***************************************************************************)
Msg(role, content, calls) ==
    [role |-> role, content |-> content, tool_calls |-> calls]

SystemMsg == Msg("system", "system_prompt", <<>>)
UserMsg == Msg("user", "prompt", <<>>)

\* The inputs of the model: what the primary model can answer.
Contents == {"r1", "r2"}
FinalContent == "final"
Call(name, arguments) == [name |-> name, arguments |-> arguments]

\* The requests the primary model makes.  The arguments are either the ones
\* the handler declares ("valid") or a mapping with other keys ("malformed").
\* clear_conversation_history is called without its arguments, whatever they
\* are.  delete_conversation is a name run_conversation does not dispatch on.
FirstRequests ==
    { Call("web_search", "valid"),
      Call("web_search", "malformed"),
      Call("lookup_past_conversations", "valid"),
      Call("clear_conversation_history", "malformed"),
      Call("delete_conversation", "valid") }
\* The requests a response with several requests begins with and goes on with.
MultiFirst == { Call("web_search", "valid") }
RestRequests == { Call("clear_conversation_history", "valid") }
ToolCallLists ==
    { <<>> } \cup
    { <<f>> : f \in FirstRequests } \cup
    { <<f>> \o rest : f \in MultiFirst,
                      rest \in UNION { [1..n -> RestRequests] : n \in 1..(MaxCalls - 1) } }
\* A response that asks for a tool carries no text of its own.
Responses ==
    { [content |-> c, tool_calls |-> <<>>] : c \in Contents } \cup
    { [content |-> "", tool_calls |-> l] : l \in ToolCallLists \ {<<>>} }
NoResponse == [content |-> "", tool_calls |-> <<>>]
NoCall == Call("", "")
NoReturn == [text |-> "", id |-> NoId]

\* The backends of call_consensus_query, in the order of model_functions.
Backends == <<"gemini", "grok", "gpt", "claude">>
BackendSet == {Backends[i] : i \in 1..Len(Backends)}
\* What a backend call returns: call_gemini, call_grok, call_openai and
\* call_claude return {"response": ...}, or {"error": ...} when anything in
\* them raises.  from is the backend that produced the text.
Entry(kind, from) == [kind |-> kind, from |-> from]
NoEntry == Entry("none", "")

\* llm.py 203-212: the round-1 calls of call_superconsensus, each with the
\* backend it goes to.
model_calls ==
    [ gemini_1 |-> "gemini", gemini_2 |-> "gemini",
      gpt_1    |-> "gpt",    gpt_2    |-> "gpt",
      grok_1   |-> "grok",   grok_2   |-> "grok",
      claude_1 |-> "claude", claude_2 |-> "claude" ]
CallNames == DOMAIN model_calls

\* llm.py 287-292: the selections, in the order of the futures dictionary.
Selections == <<"best_gemini", "best_grok", "best_gpt", "best_claude">>
SelectionSet == {Selections[i] : i \in 1..Len(Selections)}

\* llm.py 241-283: the two round-1 answers a selection is made between.
PairOf ==
    [ best_gemini |-> <<"gemini_1", "gemini_2">>,
      best_grok   |-> <<"grok_1", "grok_2">>,
      best_gpt    |-> <<"gpt_1", "gpt_2">>,
      best_claude |-> <<"claude_1", "claude_2">> ]

\* Variant: the judges are the ones the report names.
Judge_as_reported ==
    [ best_gemini |-> "gpt",
      best_grok   |-> "gemini",
      best_gpt    |-> "grok",
      best_claude |-> "claude" ]

\* llm.py 250, 261, 272, 283: the backend each selection prompt is sent to
\* (call_openai, call_gemini, call_grok, call_gemini).
Judge ==
    [ best_gemini |-> "gpt",
      best_grok   |-> "gemini",
      best_gpt    |-> "grok",
      best_claude |-> "gemini" ]

\* llm.py 310-316: the judge the report names in the heading of each section.
SelectedBy ==
    [ best_gemini |-> "gpt",
      best_grok   |-> "gemini",
      best_gpt    |-> "grok",
      best_claude |-> "claude" ]

\* What a selection holds: the text the judge returned, or the placeholder.
Selection(kind, from, saw) == [kind |-> kind, from |-> from, saw |-> saw]
SelectionFailed == Selection("Selection failed", "", <<>>)

\* The dictionaries of call_superconsensus: responses = {} (llm.py 214) and
\* selection_results = {} (llm.py 294), d[k] = v and d.get(k, default).
EmptyDict == [k \in {} |-> NoEntry]
DictPut(d, k, v) == [x \in DOMAIN d \cup {k} |-> IF x = k THEN v ELSE d[x]]
DictGet(d, k, default) == IF k \in DOMAIN d THEN d[k] ELSE default

\* The threads that write conversations (parallel_client.py starts one per
\* voice command) and the message sequences they pass.
Workers == 1..2
MessageLists ==
    { <<SystemMsg, UserMsg, Msg("assistant", "r1", <<>>)>>,
      <<SystemMsg, UserMsg, Msg("assistant", "", <<Call("web_search", "valid")>>),
        Msg("tool", "ok", <<>>), Msg("assistant", "final", <<>>)>> }

\* What the environment does to a dispatched tool.
EnvOutcomes == {"ok", "fault", "alarm_before", "alarm_in", "alarm_after"}
Summaries == {"summary"}

\* A call of search_conversations: the index it finds, its query, the
\* entries it returns and the payload of lookup_past_conversations.
NoPayload == [none |-> ""]
NoSearch == [pc |-> "none", index |-> <<>>, query |-> <<>>, matches |-> <<>>,
             payload |-> NoPayload]

\* The Timeout guard before any block was run under it: no alarm armed, no
\* SIGALRM pending.
\* VoiceConversationManager (parallel_client.py 13-69).  The requests are
\* the recorded commands, numbered in the order the listening thread passes
\* them on; the conversation of request r runs in a thread of its own, also
\* numbered r.  A thread is at "unborn" (not started), "running" (in
\* _handle_conversation up to its finally), "check_queue" (before line 67),
\* "get" (before line 68), "put" or "insert" (in start_conversation after
\* the test of line 24), "listening" or "done"; id is the conversation id
\* the thread was started with, audio and cid the argument and the
\* conversation_id of the start_conversation call it is in.
MaxRequests == 3     \* requests the listening thread passes on in one behaviour
MaxTime == 3         \* seconds the clock of the manager can show
MaxConcurrent == 2   \* largest max_concurrent_conversations given to the manager
Requests == 1..MaxRequests
Listener == 0
Callers == {Listener} \cup Requests
NoThread == [pc |-> "unborn", id |-> 0, audio |-> 0, cid |-> 0]
Listening == [pc |-> "listening", id |-> 0, audio |-> 0, cid |-> 0]

\* No fan-out tool call: tool is the tool dispatched, pc the position of
\* the main thread in it, running the worker calls of the current pool that
\* have not ended, next the selection the round-2 loop waits for, alarm the
\* state of the alarm of the guard, at the position at which the alarm fired,
\* caught the calls running when it fired, swallowed whether an except
\* clause of a collecting loop caught the TimeoutError, left the calls
\* running when the TimeoutError left the tool call.
NoPool == [tool |-> "none", pc |-> "outside", running |-> {}, next |-> 1,
           alarm |-> "off", at |-> "none", caught |-> {}, swallowed |-> FALSE,
           left |-> {}]

NoGuard == [pc |-> "outside", seconds |-> 0, elapsed |-> 0, alarm |-> 0,
            pending |-> FALSE, error |-> FALSE, ended |-> 0, entered |-> 0]

VARIABLES
    clock,            \* wall clock, in seconds
    store,            \* conversations/<id>.json : id -> [exists, messages]
    index,            \* conversation_index.json : sequence of entries
    pc,               \* position of the turn in run_conversation
    turns,            \* turns started so far
    arg,              \* the conversation_id argument of the turn
    conversation_id,  \* local conversation_id of the turn
    messages,         \* local messages of the turn
    response,         \* first model response of the turn
    tool_call,        \* the tool call run_conversation picked
    result,           \* result of the dispatched tool
    tool_event,       \* what happened to the dispatched call
    final_response,   \* content of the second model response
    dispatched,       \* names of the tools dispatched in the turn, in order
    modelCalls,       \* model calls made in the turn
    updateCalls,      \* update_conversation calls made in the turn
    returned,         \* what run_conversation returned to its caller
    failure,          \* the exception that left run_conversation
    preStore,         \* store when the turn started
    preIndex,         \* index when the turn started
    cq_pc,            \* position of call_consensus_query
    future,           \* state of the future of each backend call
    future_result,    \* what each finished backend call returned
    responses,        \* responses[model] of call_consensus_query
    report,           \* the formatted responses it returns
    cq_calls,         \* calls call_consensus_query issued to each backend
    sc_pc,            \* position of call_superconsensus
    sc_responses,     \* responses[call_name] of round 1
    sc_calls,         \* round-1 calls issued to each backend
    sc_judge_calls,   \* round-2 calls issued to each backend
    sel_future,       \* state of the future of each selection
    sel_result,       \* what each finished selection call returned
    sc_next,          \* the selection the collecting loop waits for
    selection_results,\* selection_results[name] of round 2
    sc_report,        \* superconsensus_result
    w_pc,             \* position of each thread in its store call
    w_op,             \* the store function the thread called
    w_id,             \* its conversation_id argument
    w_msgs,           \* its messages argument
    w_index,          \* the index the thread loaded
    w_loaded,         \* what load_conversation returned to the thread
    w_clean,          \* no other thread wrote the record since the thread did
    w_result,         \* what the store function returned to the thread
    index_torn,       \* conversation_index.json is open for writing, still empty
    ops,              \* store calls started so far
    search,           \* one call of search_conversations or lookup_past_conversations
    guard,            \* the Timeout guard of the main thread and its alarm
    pool,             \* one fan-out tool call under its Timeout guard
    max_concurrent,   \* VoiceConversationManager.max_concurrent
    active_conversations, \* its dictionary: conversation id -> request of the thread
    conversation_queue,   \* its queue of requests that wait
    thread,           \* position of the listening thread and of each conversation thread
    heard             \* requests the listening thread has passed on so far

turnVars == <<pc, turns, arg, conversation_id, messages, response, tool_call,
              result, tool_event, final_response, dispatched, modelCalls,
              updateCalls, returned, failure, preStore, preIndex>>
consensusVars == <<cq_pc, future, future_result, responses, report, cq_calls>>
superVars == <<sc_pc, sc_responses, sc_calls, sc_judge_calls, sel_future,
               sel_result, sc_next, selection_results, sc_report>>
workerVars == <<w_pc, w_op, w_id, w_msgs, w_index, w_loaded, w_clean, w_result,
               index_torn, ops>>
managerVars == <<max_concurrent, active_conversations, conversation_queue,
                 thread, heard>>
callerVars == <<pool, managerVars>>
callVars == <<search, guard, callerVars>>
vars == <<clock, store, index, turnVars, consensusVars, superVars, workerVars, callVars>>

NoRecord == [exists |-> FALSE, messages |-> <<>>]

InitProgram ==
    /\ clock = 1
    /\ store = [i \in Ids |-> NoRecord]
    /\ index = <<>>
    /\ pc = "Idle"
    /\ turns = 0
    /\ arg = NoId
    /\ conversation_id = NoId
    /\ messages = <<>>
    /\ response = NoResponse
    /\ tool_call = NoCall
    /\ result = ""
    /\ tool_event = "none"
    /\ final_response = ""
    /\ dispatched = <<>>
    /\ modelCalls = 0
    /\ updateCalls = 0
    /\ returned = NoReturn
    /\ failure = "none"
    /\ preStore = [i \in Ids |-> NoRecord]
    /\ preIndex = <<>>
    /\ cq_pc = "idle"
    /\ future = [b \in BackendSet |-> "unsubmitted"]
    /\ future_result = [b \in BackendSet |-> NoEntry]
    /\ responses = [b \in BackendSet |-> NoEntry]
    /\ report = <<>>
    /\ cq_calls = [b \in BackendSet |-> 0]
    /\ sc_pc = "idle"
    /\ sc_responses = EmptyDict
    /\ sc_calls = [b \in BackendSet |-> 0]
    /\ sc_judge_calls = [b \in BackendSet |-> 0]
    /\ sel_future = [n \in SelectionSet |-> "unsubmitted"]
    /\ sel_result = EmptyDict
    /\ sc_next = 1
    /\ selection_results = EmptyDict
    /\ sc_report = <<>>
    /\ w_pc = [w \in Workers |-> "idle"]
    /\ w_op = [w \in Workers |-> "none"]
    /\ w_id = [w \in Workers |-> NoId]
    /\ w_msgs = [w \in Workers |-> <<>>]
    /\ w_index = [w \in Workers |-> <<>>]
    /\ w_loaded = [w \in Workers |-> <<>>]
    /\ w_clean = [w \in Workers |-> TRUE]
    /\ w_result = [w \in Workers |-> "none"]
    /\ index_torn = FALSE
    /\ ops = 0

\* No fan-out tool call is under way.
InitManager(m) ==
    /\ max_concurrent = m
    /\ active_conversations = EmptyDict
    /\ conversation_queue = <<>>
    /\ thread = [t \in Callers |-> IF t = Listener THEN Listening ELSE NoThread]
    /\ heard = 0

InitCallers ==
    /\ pool = NoPool
    /\ InitManager(MaxConcurrent)

Init ==
    /\ InitProgram
    /\ search = NoSearch
    /\ guard = NoGuard
    /\ InitCallers

(***************************************************************************)
(* Conversation store (conversations.py) and index (conversation_index.py).*)
(***************************************************************************)
\* json.dump of a message list (conversations.py 25-26, 54-55): the text of
\* the array, every message an object written out as its role, its content
\* and the array of its tool calls, in the order of the list.
json_dump(msgs) ==
    [i \in 1..Len(msgs) |->
        LET msg == msgs[i] IN
        << msg.role, msg.content,
           IF msg.tool_calls = <<>> THEN <<>>
           ELSE [k \in 1..Len(msg.tool_calls) |->
                    << msg.tool_calls[k].name, msg.tool_calls[k].arguments >>] >>]

\* Variant: the array is read back to front.
json_load_reversed(text) ==
    [i \in 1..Len(text) |->
        Msg(text[Len(text) + 1 - i][1], text[Len(text) + 1 - i][2],
            [k \in 1..Len(text[Len(text) + 1 - i][3]) |->
                Call(text[Len(text) + 1 - i][3][k][1],
                     text[Len(text) + 1 - i][3][k][2])])]

\* json.load of that text (conversations.py 38-40, 47-48).
json_load(text) ==
    [i \in 1..Len(text) |->
        LET object == text[i] IN
        [role |-> object[1], content |-> object[2],
         tool_calls |-> IF object[3] = <<>> THEN <<>>
                        ELSE [k \in 1..Len(object[3]) |->
                                 [name |-> object[3][k][1],
                                  arguments |-> object[3][k][2]]]]]

load_conversation(s, id) ==
    IF s[id].exists THEN json_load(s[id].messages) ELSE <<>>

save_conversation(s, id, msgs) ==
    [s EXCEPT ![id] = [exists |-> TRUE, messages |-> json_dump(msgs)]]

\* Variant: the branch for an id that has no record yet is missing.
update_conversation_existing_only(s, id, msgs) ==
    IF s[id].exists THEN [s EXCEPT ![id].messages = json_dump(msgs)] ELSE s

update_conversation(s, id, msgs) ==
    IF s[id].exists
    THEN [s EXCEPT ![id].messages = json_dump(msgs)]
    ELSE save_conversation(s, id, msgs)

generate_conversation_id(now) == now

\* Position of the first entry of id in the index, 0 when there is none.
existing_entry(ix, id) ==
    IF \E i \in 1..Len(ix) : ix[i].id = id
    THEN CHOOSE i \in 1..Len(ix) :
             /\ ix[i].id = id
             /\ \A j \in 1..(i - 1) : ix[j].id # id
    ELSE 0

\* Variant: the system message is not counted.
IndexEntry_without_system(id, msgs, summary) ==
    [id |-> id, summary |-> summary, message_count |-> Len(msgs) - 1]

\* The entry of a conversation (its time stamp and file name are left out).
IndexEntry(id, msgs, summary) ==
    [id |-> id, summary |-> summary, message_count |-> Len(msgs)]

\* Variant: the entry is always added at the end.
add_conversation_to_index_append_only(ix, id, msgs, summary) ==
    Append(ix, IndexEntry(id, msgs, summary))

\* Variant: an entry that exists is taken out and the new one goes to the end.
add_conversation_to_index_move_to_end(ix, id, msgs, summary) ==
    Append(SelectSeq(ix, LAMBDA entry : entry.id # id), IndexEntry(id, msgs, summary))

add_conversation_to_index(ix, id, msgs, summary) ==
    LET e == existing_entry(ix, id)
        entry == IndexEntry(id, msgs, summary)
    IN  IF e # 0 THEN [ix EXCEPT ![e] = entry] ELSE Append(ix, entry)

\* conversations.py 95: the index without the entries of the id.
remove_from_index(ix, id) == SelectSeq(ix, LAMBDA entry : entry.id # id)

\* clear_conversation_history: rmtree of the records, then removal of the index.
ClearedStore == [i \in Ids |-> NoRecord]

(***************************************************************************)
(* run_conversation, up to the first model call.                           *)
(***************************************************************************)
\* Variant: an id that cannot be used is replaced by a generated one.
TurnId_always_generated(a, now) == generate_conversation_id(now)

\* llm.py 635-643: the id the turn works on.
TurnId(a, now) ==
    IF a # NoId THEN a ELSE generate_conversation_id(now)

\* Variant: every turn starts from an empty history.
LoadedMessages_none(s, a) == <<>>

\* llm.py 635-643: the messages the turn starts from.
LoadedMessages(s, a) ==
    IF a # NoId THEN load_conversation(s, a) ELSE <<>>

\* Variant: the system prompt is added on every turn.
SeedSystem_every_turn(msgs) == <<SystemMsg>> \o msgs

\* llm.py 646-648: the system prompt is added to an empty history only.
SeedSystem(msgs) ==
    IF msgs = <<>> THEN <<SystemMsg>> ELSE msgs

\* llm.py 664-681: the model response as it is appended to the history.
ResponseMsg(r) == Msg("assistant", r.content, r.tool_calls)

\* Variant: the last request wins.
PickToolCall_last(calls) == calls[Len(calls)]

\* llm.py 685: the tool call that is honoured.
PickToolCall(calls) == calls[1]

NoTool(r) == r.tool_calls = <<>>

\* Time passes.  A turn reads the clock only when it generates an id, so the
\* clock moves between turns.
Tick ==
    /\ clock < MaxClock
    /\ pc \in {"Idle", "Completed", "Failed"}
    /\ clock' = clock + 1
    /\ UNCHANGED <<store, index, turnVars,
                   consensusVars, superVars, workerVars, callVars>>

\* A caller passes no id, an id a turn returned to it (client.py), or an id
\* it builds from the time of the call (parallel_client.py): no id is ahead
\* of the clock.
Begin(a) ==
    /\ pc \in {"Idle", "Completed", "Failed"}
    /\ a \in Ids => a <= clock
    /\ turns < MaxTurns
    /\ turns' = turns + 1
    /\ arg' = a
    /\ conversation_id' = TurnId(a, clock)
    /\ messages' = Append(SeedSystem(LoadedMessages(store, a)), UserMsg)
    /\ response' = NoResponse
    /\ tool_call' = NoCall
    /\ result' = ""
    /\ tool_event' = "none"
    /\ final_response' = ""
    /\ dispatched' = <<>>
    /\ modelCalls' = 0
    /\ updateCalls' = 0
    /\ returned' = NoReturn
    /\ failure' = "none"
    /\ preStore' = store
    /\ preIndex' = index
    /\ pc' = "Start"
    /\ UNCHANGED <<clock, store, index,
                   consensusVars, superVars, workerVars, callVars>>

\* llm.py 656-681: first model call, response appended to the history.
FirstModelCall(r) ==
    /\ pc = "Start"
    /\ modelCalls' = modelCalls + 1
    /\ response' = r
    /\ messages' = Append(messages, ResponseMsg(r))
    /\ pc' = "ModelCalled"
    /\ UNCHANGED <<clock, store, index, turns, arg, conversation_id, tool_call,
                   result, tool_event, final_response, dispatched, updateCalls, returned,
                   failure, preStore, preIndex,
                   consensusVars, superVars, workerVars, callVars>>

\* The model backend is unreachable: client.chat raises, nothing catches it.
FirstModelCallFails ==
    /\ pc = "Start"
    /\ modelCalls' = modelCalls + 1
    /\ failure' = "ModelError"
    /\ pc' = "Failed"
    /\ UNCHANGED <<clock, store, index, turns, arg, conversation_id, messages,
                   response, tool_call, result, tool_event, final_response, dispatched,
                   updateCalls, returned, preStore, preIndex,
                   consensusVars, superVars, workerVars, callVars>>

\* llm.py 684-689
RequestTool ==
    /\ pc = "ModelCalled"
    /\ ~NoTool(response)
    /\ tool_call' = PickToolCall(response.tool_calls)
    /\ pc' = "ToolRequested"
    /\ UNCHANGED <<clock, store, index, turns, arg, conversation_id, messages,
                   response, result, tool_event, final_response, dispatched, modelCalls,
                   updateCalls, returned, failure, preStore, preIndex,
                   consensusVars, superVars, workerVars, callVars>>

(***************************************************************************)
(* Tool dispatch (llm.py 691-751) under the Timeout guard (timeout.py).    *)
(* The guard arms SIGALRM on entry and disarms it on exit; when the alarm  *)
(* fires, handle_timeout raises TimeoutError in the main thread at the     *)
(* point the thread has reached: before the handler has entered its try    *)
(* block, inside the handler, or after the handler has returned and before *)
(* the block is left.                                                      *)
(***************************************************************************)
\* raised: the exception that leaves the dispatch ("none": it returns);
\* event: what happened to the call (bad_args, fault, alarm, or none).
Outcome(raised, res, s, ix, event) ==
    [raised |-> raised, result |-> res, store |-> s, index |-> ix,
     event |-> event]

\* Variant: clear_conversation_history leaves the records in place.
HandlerStore_untouched(name, s) == s

\* What the handler leaves behind: only clear_conversation_history writes to
\* the store.  It removes the records first and the index second; a fault or
\* an alarm inside it is caught after the records are gone.
HandlerStore(name, s) ==
    IF name = "clear_conversation_history" THEN ClearedStore ELSE s

HandlerIndex(name, env, ix) ==
    IF name = "clear_conversation_history" /\ env \in {"ok", "alarm_after"}
    THEN <<>>
    ELSE ix

\* Does an exception raised inside the handler come back as an error payload?
Folds(name) == name \in CatchesAll

\* llm.py 692-749: a registered tool, run under its Timeout guard.
RunRegistered(call, env, s, ix) ==
    LET name == call.name
        hs == HandlerStore(name, s)
        hix == HandlerIndex(name, env, ix)
    IN
    IF call.arguments = "malformed" /\ name \notin NoArgs
    THEN Outcome("TypeError", "", s, ix, "bad_args")
    ELSE IF env = "alarm_before"
    THEN Outcome("TimeoutError", "", s, ix, "alarm")
    ELSE IF env = "alarm_after"
    THEN Outcome("TimeoutError", "", hs, hix, "alarm")
    ELSE IF env = "alarm_in"
    THEN IF Folds(name)
         THEN Outcome("none", "error", hs, hix, "alarm")
         ELSE Outcome("TimeoutError", "", s, ix, "alarm")
    ELSE IF env = "fault"
    THEN IF Folds(name)
         THEN Outcome("none", "error", hs, hix, "fault")
         ELSE Outcome("HandlerError", "", s, ix, "fault")
    ELSE Outcome("none", "ok", hs, hix, "none")

\* Variant: an unregistered name is a fault of the dispatch.
ToolRun_tool_not_found(call, env, s, ix) ==
    IF call.name \notin Registered
    THEN Outcome("ToolNotFound", "", s, ix, "none")
    ELSE RunRegistered(call, env, s, ix)

\* llm.py 691-751: the if/elif chain on function_name and its else branch.
ToolRun(call, env, s, ix) ==
    IF call.name \notin Registered
    THEN Outcome("none", "Unknown function", s, ix, "none")
    ELSE RunRegistered(call, env, s, ix)

Dispatch(env) ==
    /\ pc = "ToolRequested"
    /\ LET o == ToolRun(tool_call, env, store, index) IN
         /\ dispatched' = Append(dispatched, tool_call.name)
         /\ store' = o.store
         /\ index' = o.index
         /\ result' = o.result
         /\ tool_event' = o.event
         /\ failure' = o.raised
         /\ pc' = IF o.raised = "none" THEN "ToolDispatched" ELSE "Failed"
    /\ UNCHANGED <<clock, turns, arg, conversation_id, messages, response,
                   tool_call, final_response, modelCalls, updateCalls,
                   returned, preStore, preIndex,
                   consensusVars, superVars, workerVars, callVars>>

(***************************************************************************)
(* run_conversation after the tool: llm.py 753-797.                        *)
(***************************************************************************)
\* llm.py 758-772: the tool execution info and the tool result.
ToolMessages(call, res) ==
    << Msg("assistant", "announce", <<call>>), Msg("tool", res, <<>>) >>

SecondModelCall ==
    /\ pc = "ToolDispatched"
    /\ modelCalls' = modelCalls + 1
    /\ final_response' = FinalContent
    /\ messages' = messages \o ToolMessages(tool_call, result)
                            \o << Msg("assistant", FinalContent, <<>>) >>
    /\ pc' = "FinalModelCalled"
    /\ UNCHANGED <<clock, store, index, turns, arg, conversation_id, response,
                   tool_call, result, tool_event, dispatched, updateCalls, returned,
                   failure, preStore, preIndex,
                   consensusVars, superVars, workerVars, callVars>>

SecondModelCallFails ==
    /\ pc = "ToolDispatched"
    /\ modelCalls' = modelCalls + 1
    /\ failure' = "ModelError"
    /\ pc' = "Failed"
    /\ UNCHANGED <<clock, store, index, turns, arg, conversation_id, messages,
                   response, tool_call, result, tool_event, final_response, dispatched,
                   updateCalls, returned, preStore, preIndex,
                   consensusVars, superVars, workerVars, callVars>>

\* Variant: a turn whose response asks for a tool may persist at once.
ReadyToUpdate_without_tool ==
    \/ pc = "ModelCalled"
    \/ pc = "FinalModelCalled"

\* The turn has everything it will persist: llm.py 795 and 802.
ReadyToUpdate ==
    \/ pc = "ModelCalled" /\ NoTool(response)
    \/ pc = "FinalModelCalled"

\* update_conversation(conversation_id, messages): the record is written,
\* then the index entry of the id is regenerated.  The summary is the text
\* of the summarization call, or an error text when that call fails.
Update(summary) ==
    /\ ReadyToUpdate
    /\ updateCalls' = updateCalls + 1
    /\ store' = update_conversation(store, conversation_id, messages)
    /\ index' = add_conversation_to_index(index, conversation_id, messages,
                                          summary)
    /\ pc' = "Persisted"
    /\ UNCHANGED <<clock, turns, arg, conversation_id, messages, response,
                   tool_call, result, tool_event, final_response, dispatched, modelCalls,
                   returned, failure, preStore, preIndex,
                   consensusVars, superVars, workerVars, callVars>>

\* A write of update_conversation fails (PersistenceError, not caught): at
\* the record, or at the index after the record has been written.
UpdateFails(stage) ==
    /\ ReadyToUpdate
    /\ updateCalls' = updateCalls + 1
    /\ store' = IF stage = "index"
                THEN update_conversation(store, conversation_id, messages)
                ELSE store
    /\ failure' = "PersistenceError"
    /\ pc' = "Failed"
    /\ UNCHANGED <<clock, index, turns, arg, conversation_id, messages,
                   response, tool_call, result, tool_event, final_response, dispatched,
                   modelCalls, returned, preStore, preIndex,
                   consensusVars, superVars, workerVars, callVars>>

\* llm.py 797 and 804: the text returned to the caller.
ReturnText(r, final) ==
    IF NoTool(r) THEN r.content ELSE final

Return ==
    /\ pc = "Persisted"
    /\ returned' = [text |-> ReturnText(response, final_response),
                    id |-> conversation_id]
    /\ pc' = "Completed"
    /\ UNCHANGED <<clock, store, index, turns, arg, conversation_id, messages,
                   response, tool_call, result, tool_event, final_response, dispatched,
                   modelCalls, updateCalls, failure, preStore, preIndex,
                   consensusVars, superVars, workerVars, callVars>>

Next ==
    \/ Tick
    \/ \E a \in {NoId} \cup Ids : Begin(a)
    \/ \E r \in Responses : FirstModelCall(r)
    \/ FirstModelCallFails
    \/ RequestTool
    \/ \E env \in EnvOutcomes : Dispatch(env)
    \/ SecondModelCall
    \/ SecondModelCallFails
    \/ \E summary \in Summaries : Update(summary)
    \/ \E stage \in {"record", "index"} : UpdateFails(stage)
    \/ Return

Spec == Init /\ [][Next]_vars

(***************************************************************************)
(* Properties of the turn loop.                                            *)
(***************************************************************************)
Roles(msgs) == [i \in 1..Len(msgs) |-> msgs[i].role]

SystemCount(msgs) == Cardinality({i \in 1..Len(msgs) : msgs[i].role = "system"})

Persisted(id) == json_load(store[id].messages)

EntriesOf(id) == {i \in 1..Len(index) : index[i].id = id}

\* The dispatch step of the turn has been taken.
DispatchDone == dispatched # <<>>

\* C1 (as stated): a new conversation whose first response requests a
\* registered tool is persisted as exactly 5 messages: system, user,
\* assistant with the tool call, tool, assistant.
C1_FiveMessages ==
    (pc = "Completed" /\ arg = NoId /\ ~NoTool(response)
        /\ tool_call.name \in Registered)
    => /\ Roles(Persisted(conversation_id)) =
              <<"system", "user", "assistant", "tool", "assistant">>
       /\ Persisted(conversation_id)[3].tool_calls # <<>>

C3_NewIdGenerated ==
    (pc # "Idle" /\ (arg = NoId \/ load_conversation(preStore, arg) = <<>>))
    => /\ conversation_id # arg
       /\ messages[1] = SystemMsg
       /\ SystemCount(messages) = 1
       /\ pc = "Completed" => returned.id = conversation_id

\* C3 (amended): with no id the turn works on the id generated from the
\* clock; with an id whose conversation cannot be loaded it keeps the given
\* id; in both cases the history starts with the one system message, and
\* the id the turn worked on is the id it returns.
C3_IdOfTurn ==
    (pc # "Idle" /\ (arg = NoId \/ Len(load_conversation(preStore, arg)) = 0))
    => /\ arg = NoId => /\ conversation_id \in Ids
                        /\ pc = "Start" => conversation_id = generate_conversation_id(clock)
       /\ arg # NoId => conversation_id = arg
       /\ messages[1] = SystemMsg
       /\ SystemCount(messages) = 1
       /\ pc = "Completed" => returned.id = conversation_id

C3_Witness ==
    /\ pc = "Completed"
    /\ arg # NoId
    /\ ~preStore[arg].exists
    /\ returned.id = arg

\* C4: every persisted conversation starts with a system message and holds
\* exactly one, whatever turns were run; a resumed one gets no second.
C4_OneSystemMessage ==
    \A id \in Ids :
        LET persisted == Persisted(id) IN
        (store[id].exists /\ persisted # <<>>)
        => /\ persisted[1].role = "system"
           /\ SystemCount(persisted) = 1

C4_Witness ==
    /\ pc = "Completed"
    /\ arg # NoId
    /\ preStore[arg].exists
    /\ Len(Persisted(arg)) > Len(preStore[arg].messages)

\* C5: when run_conversation has returned, update_conversation was called
\* exactly once in the turn, the record holds the full message sequence of
\* the turn (ending with the answer that is returned), and nothing is
\* returned before the update is complete.
C5_UpdateOnceBeforeReturn ==
    /\ returned # NoReturn =>
          /\ updateCalls = 1
          /\ store[conversation_id].exists
          /\ Persisted(conversation_id) = messages
          /\ messages[Len(messages)].role = "assistant"
          /\ messages[Len(messages)].content = returned.text
    /\ pc \notin {"Persisted", "Completed"} => returned = NoReturn
    /\ pc = "Persisted" => updateCalls = 1

C5_Witness ==
    /\ returned # NoReturn
    /\ ~NoTool(response)
    /\ ~preStore[conversation_id].exists

\* C6 (as stated): when the deadline of the dispatched tool fires, the
\* TimeoutError leaves run_conversation, nothing is returned, and record and
\* index are what they were before the turn.
C6_TimeoutAbortsTurn ==
    tool_event = "alarm"
    => /\ pc = "Failed"
       /\ failure = "TimeoutError"
       /\ returned = NoReturn
       /\ store = preStore
       /\ index = preIndex

\* C7 (as stated): a failure of a registered tool other than a timeout
\* (handler fault, malformed arguments) never fails the turn: it becomes an
\* error payload in the tool message.
C7_FailureFolded ==
    (tool_event \in {"fault", "bad_args"} /\ tool_call.name \in Registered)
    => /\ failure \notin {"TypeError", "HandlerError"}
       /\ result = "error"

\* C8: once the dispatch step is taken, exactly one tool has been dispatched
\* and it is the first request of the response; before it, none has been.
C8_OnlyFirstDispatched ==
    /\ Len(dispatched) <= 1
    /\ DispatchDone =>
          /\ response.tool_calls # <<>>
          /\ dispatched = << response.tool_calls[1].name >>
          /\ tool_call = response.tool_calls[1]
    /\ pc \in {"ToolDispatched", "FinalModelCalled"} => DispatchDone
    /\ (pc \in {"Persisted", "Completed"} /\ ~NoTool(response)) => DispatchDone

C8_Witness ==
    /\ pc = "Completed"
    /\ Len(response.tool_calls) >= 2
    /\ dispatched = << response.tool_calls[1].name >>

\* C9: a new conversation whose first response requests no tool is persisted
\* as the 3 messages system, user, assistant; the text returned is the
\* content of that response; the index has one entry for the conversation,
\* with message_count 3.
C9_ThreeMessages ==
    (pc = "Completed" /\ arg = NoId /\ NoTool(response))
    => /\ Roles(Persisted(conversation_id)) = <<"system", "user", "assistant">>
       /\ Persisted(conversation_id)[3].content = response.content
       /\ returned.text = response.content
       /\ Cardinality(EntriesOf(conversation_id)) = 1
       /\ \A i \in EntriesOf(conversation_id) : index[i].message_count = 3

C9_Witness ==
    /\ pc = "Completed"
    /\ arg = NoId
    /\ NoTool(response)
    /\ returned.text = "r2"

(***************************************************************************)
(* call_consensus_query (llm.py 156-197): the prompt goes to the four      *)
(* backends in a pool of four workers; the caller takes the futures as     *)
(* they complete, files each result under the name of its model, formats   *)
(* the four entries in a fixed order, writes them to a scratch file and    *)
(* returns them.                                                           *)
(***************************************************************************)
\* Variant: a second call is submitted for every model.
SubmitAll_twice(calls) == [b \in BackendSet |-> calls[b] + 2]

\* llm.py 172: one executor.submit for each item of model_functions.
SubmitAll(calls) == [b \in BackendSet |-> calls[b] + 1]

\* llm.py 170-172: every call is submitted; the pool has a worker for each.
ConsensusCall ==
    /\ cq_pc = "idle"
    /\ future' = [b \in BackendSet |-> "running"]
    /\ cq_calls' = SubmitAll(cq_calls)
    /\ cq_pc' = "collecting"
    /\ UNCHANGED <<future_result, responses, report>>
    /\ UNCHANGED <<clock, store, index, turnVars, superVars, workerVars, callVars>>

\* llm.py 77-154: a backend call ends, with a response or, when it failed
\* (key file, transport, authentication), with its own error payload.
BackendCompletes(b, kind) ==
    /\ cq_pc = "collecting"
    /\ future[b] = "running"
    /\ future' = [future EXCEPT ![b] = "done"]
    /\ future_result' = [future_result EXCEPT ![b] = Entry(kind, b)]
    /\ UNCHANGED <<cq_pc, responses, report, cq_calls>>
    /\ UNCHANGED <<clock, store, index, turnVars, superVars, workerVars, callVars>>

\* A backend call never ends: the request gets no answer and the client sets
\* no deadline of its own.  The future stays unfinished; as_completed (called
\* without a timeout) never hands it out, so the timeout of future.result
\* (llm.py 178), which is only called on finished futures, cannot fire.
BackendHangs(b) ==
    /\ cq_pc = "collecting"
    /\ future[b] = "running"
    /\ future' = [future EXCEPT ![b] = "hung"]
    /\ UNCHANGED <<cq_pc, future_result, responses, report, cq_calls>>
    /\ UNCHANGED <<clock, store, index, turnVars, superVars, workerVars, callVars>>

\* Variant: only successful calls are filed.
StoreResponse_successes_only(rs, model, res) ==
    IF res.kind = "error" THEN rs ELSE [rs EXCEPT ![model] = res]

\* llm.py 176-179: responses[model] = result
StoreResponse(rs, model, res) == [rs EXCEPT ![model] = res]

\* llm.py 175-179: as_completed hands out a finished future; its result is
\* filed under the model the future was submitted for.
Collect(b) ==
    /\ cq_pc = "collecting"
    /\ future[b] = "done"
    /\ future' = [future EXCEPT ![b] = "collected"]
    /\ responses' = StoreResponse(responses, b, future_result[b])
    /\ UNCHANGED <<cq_pc, future_result, report, cq_calls>>
    /\ UNCHANGED <<clock, store, index, turnVars, superVars, workerVars, callVars>>

\* llm.py 186-192: responses.get(model, 'No response')
ResponsesGet(rs, model) ==
    IF rs[model] = NoEntry THEN Entry("No response", "") ELSE rs[model]

\* llm.py 183-194: the four entries, in the order gemini, grok, gpt, claude.
FormatResponses(rs) ==
    [i \in 1..Len(Backends) |->
        [key |-> Backends[i], entry |-> ResponsesGet(rs, Backends[i])]]

\* llm.py 175-194: as_completed is exhausted and the pool is shut down.
Format ==
    /\ cq_pc = "collecting"
    /\ \A b \in BackendSet : future[b] = "collected"
    /\ report' = FormatResponses(responses)
    /\ cq_pc' = "formatted"
    /\ UNCHANGED <<future, future_result, responses, cq_calls>>
    /\ UNCHANGED <<clock, store, index, turnVars, superVars, workerVars, callVars>>

\* llm.py 195-197: the scratch file is written and the text is returned.
ConsensusReturn ==
    /\ cq_pc = "formatted"
    /\ cq_pc' = "returned"
    /\ UNCHANGED <<future, future_result, responses, report, cq_calls>>
    /\ UNCHANGED <<clock, store, index, turnVars, superVars, workerVars, callVars>>

\* llm.py 195-196: the scratch file cannot be written; the OSError leaves
\* call_consensus_query.
ConsensusWriteFails ==
    /\ cq_pc = "formatted"
    /\ cq_pc' = "failed"
    /\ UNCHANGED <<future, future_result, responses, report, cq_calls>>
    /\ UNCHANGED <<clock, store, index, turnVars, superVars, workerVars, callVars>>

\* The next call of call_consensus_query.
ConsensusReset ==
    /\ cq_pc \in {"returned", "failed"}
    /\ cq_pc' = "idle"
    /\ future' = [b \in BackendSet |-> "unsubmitted"]
    /\ future_result' = [b \in BackendSet |-> NoEntry]
    /\ responses' = [b \in BackendSet |-> NoEntry]
    /\ report' = <<>>
    /\ cq_calls' = [b \in BackendSet |-> 0]
    /\ UNCHANGED <<clock, store, index, turnVars, superVars, workerVars, callVars>>

ConsensusNext ==
    \/ ConsensusCall
    \/ \E b \in BackendSet, kind \in {"response", "error"} : BackendCompletes(b, kind)
    \/ \E b \in BackendSet : BackendHangs(b)
    \/ \E b \in BackendSet : Collect(b)
    \/ Format
    \/ ConsensusReturn
    \/ ConsensusWriteFails
    \/ ConsensusReset

ConsensusSpec == Init /\ [][ConsensusNext]_vars

\* C10: what call_consensus_query returns has exactly the four entries
\* gemini, grok, gpt, claude, whichever backends failed: the entry of a failed
\* backend is the error of that backend, the entry of any other backend is
\* the response of that backend.
C10_FourEntries ==
    cq_pc = "returned"
    => /\ Len(report) = 4
       /\ \A i \in 1..Len(report) :
             /\ report[i].key = Backends[i]
             /\ report[i].entry = future_result[Backends[i]]
             /\ report[i].entry.from = Backends[i]
             /\ report[i].entry.kind \in {"response", "error"}

C10_Witness ==
    /\ cq_pc = "returned"
    /\ report[2].entry = Entry("error", "grok")
    /\ report[1].entry = Entry("response", "gemini")
    /\ report[3].entry = Entry("response", "gpt")
    /\ report[4].entry = Entry("response", "claude")

\* The scheduling of call_consensus_query: every submitted call has a worker
\* of its own (max_workers = 4), so each call ends or hangs; the caller's
\* loop takes every finished future, formats when the loop is over, and
\* leaves the function with the text or with the fault of the file write.
ConsensusFairness ==
    /\ \A b \in BackendSet :
          WF_vars(BackendHangs(b)
                    \/ \E kind \in {"response", "error"} : BackendCompletes(b, kind))
    /\ \A b \in BackendSet : WF_vars(Collect(b))
    /\ WF_vars(Format)
    /\ WF_vars(ConsensusReturn \/ ConsensusWriteFails)

ConsensusLiveSpec == ConsensusSpec /\ ConsensusFairness

\* One backend call of the running consensus query is hung and the other
\* three have completed.
OneHung ==
    /\ cq_pc = "collecting"
    /\ Cardinality({b \in BackendSet : future[b] = "hung"}) = 1
    /\ \A b \in BackendSet : future[b] \in {"hung", "done", "collected"}

\* C11 (as stated): when one backend call never completes and the other
\* three complete, call_consensus_query still eventually leaves its loop
\* and returns (or stops at its file write) with the hung backend as an
\* error entry under its key and the other three entries holding what their
\* backends returned.
C11_HungBackendCaptured ==
    OneHung ~>
        /\ cq_pc \in {"returned", "failed"}
        /\ Len(report) = 4
        /\ \A i \in 1..Len(report) :
              IF future[Backends[i]] = "hung"
              THEN report[i].entry.kind = "error"
              ELSE report[i].entry = future_result[Backends[i]]

(***************************************************************************)
(* call_superconsensus (llm.py 199-322).  Round 1 sends the prompt twice   *)
(* to every backend in a pool of eight workers and files every result      *)
(* under its call name as the calls complete.  Round 2 submits the four    *)
(* selection calls to a pool of four workers and waits for them one after  *)
(* the other, in the order of the futures dictionary, each wait with a     *)
(* timeout of 600 seconds that starts when the wait starts.  The report    *)
(* is written to a scratch file and returned.                              *)
(***************************************************************************)
\* Calls that go to backend b among the calls of a name -> backend mapping.
CallsTo(mapping, b) == Cardinality({c \in DOMAIN mapping : mapping[c] = b})

\* llm.py 217-218: every round-1 call is submitted; the pool has a worker
\* for each.  call_superconsensus runs as a tool of the single-threaded
\* turn loop, so no consensus query is under way.
SuperCall ==
    /\ sc_pc = "idle"
    /\ cq_pc = "idle"
    /\ sc_calls' = [b \in BackendSet |-> sc_calls[b] + CallsTo(model_calls, b)]
    /\ sc_pc' = "round1"
    /\ UNCHANGED <<sc_responses, sc_judge_calls, sel_future, sel_result,
                   sc_next, selection_results, sc_report>>
    /\ UNCHANGED <<clock, store, index, turnVars, consensusVars, workerVars, callVars>>

\* llm.py 220-227: a round-1 call ends, with a response or with the error
\* payload of its backend function; as_completed hands the future out and
\* the result is filed under the call name the future was submitted for.
Round1Completes(c, kind) ==
    /\ sc_pc = "round1"
    /\ c \notin DOMAIN sc_responses
    /\ sc_responses' = DictPut(sc_responses, c, Entry(kind, model_calls[c]))
    /\ UNCHANGED <<sc_pc, sc_calls, sc_judge_calls, sel_future, sel_result,
                   sc_next, selection_results, sc_report>>
    /\ UNCHANGED <<clock, store, index, turnVars, consensusVars, workerVars, callVars>>

\* llm.py 230-283: the two round-1 answers a selection prompt quotes.
PairSeen(rs, n) ==
    << DictGet(rs, PairOf[n][1], Entry("No response", "")),
       DictGet(rs, PairOf[n][2], Entry("No response", "")) >>

\* Variant: the selections are submitted while round-1 calls are running.
SubmitSelections_early ==
    /\ sc_pc = "round1"
    /\ sel_future' = [n \in SelectionSet |-> "running"]
    /\ sc_judge_calls' = [b \in BackendSet |-> sc_judge_calls[b] + CallsTo(Judge, b)]
    /\ sc_next' = 1
    /\ sc_pc' = "round2"
    /\ UNCHANGED <<sc_responses, sc_calls, sel_result, selection_results,
                   sc_report>>
    /\ UNCHANGED <<clock, store, index, turnVars, consensusVars, workerVars, callVars>>

\* llm.py 286-292: round 1 is over; the four selections are submitted.
SubmitSelections ==
    /\ sc_pc = "round1"
    /\ DOMAIN sc_responses = CallNames
    /\ sel_future' = [n \in SelectionSet |-> "running"]
    /\ sc_judge_calls' = [b \in BackendSet |-> sc_judge_calls[b] + CallsTo(Judge, b)]
    /\ sc_next' = 1
    /\ sc_pc' = "round2"
    /\ UNCHANGED <<sc_responses, sc_calls, sel_result, selection_results,
                   sc_report>>
    /\ UNCHANGED <<clock, store, index, turnVars, consensusVars, workerVars, callVars>>

\* llm.py 241-283: a selection call ends.  The judge is a backend function,
\* which returns a response or, when anything in it raises, its own error
\* payload; it never raises.  The call can end after the collecting loop
\* has given up waiting for it.
JudgeCompletes(n, kind) ==
    /\ sc_pc = "round2"
    /\ sel_future[n] = "running"
    /\ sel_future' = [sel_future EXCEPT ![n] = "done"]
    /\ sel_result' = DictPut(sel_result, n,
                              Selection(kind, Judge[n], PairSeen(sc_responses, n)))
    /\ UNCHANGED <<sc_pc, sc_responses, sc_calls, sc_judge_calls, sc_next,
                   selection_results, sc_report>>
    /\ UNCHANGED <<clock, store, index, turnVars, consensusVars, workerVars, callVars>>

\* llm.py 295-297: the selection the loop waits for has ended within the
\* wait; what the judge returned is filed, whatever it is.
TakeSelection ==
    /\ sc_pc = "round2"
    /\ sc_next <= Len(Selections)
    /\ sel_future[Selections[sc_next]] = "done"
    /\ selection_results' = DictPut(selection_results, Selections[sc_next],
                                     sel_result[Selections[sc_next]])
    /\ sc_next' = sc_next + 1
    /\ UNCHANGED <<sc_pc, sc_responses, sc_calls, sc_judge_calls, sel_future,
                   sel_result, sc_report>>
    /\ UNCHANGED <<clock, store, index, turnVars, consensusVars, workerVars, callVars>>

\* llm.py 297-300: the selection the loop waits for is still running 600
\* seconds after the wait started; future.result raises and the placeholder
\* is filed.
SelectionTimesOut ==
    /\ sc_pc = "round2"
    /\ sc_next <= Len(Selections)
    /\ sel_future[Selections[sc_next]] = "running"
    /\ selection_results' = DictPut(selection_results, Selections[sc_next],
                                     SelectionFailed)
    /\ sc_next' = sc_next + 1
    /\ UNCHANGED <<sc_pc, sc_responses, sc_calls, sc_judge_calls, sel_future,
                   sel_result, sc_report>>
    /\ UNCHANGED <<clock, store, index, turnVars, consensusVars, workerVars, callVars>>

\* llm.py 302-305: selection_results.get(name, 'Selection failed')
SelectionsGet(sr, n) == DictGet(sr, n, SelectionFailed)

\* Variant: a selection that failed gets no section.
FormatSelections_drop_failed(sr) ==
    SelectSeq([i \in 1..Len(Selections) |->
                  [key |-> Selections[i],
                   selected_by |-> SelectedBy[Selections[i]],
                   entry |-> SelectionsGet(sr, Selections[i])]],
              LAMBDA e : e.entry.kind = "response")

\* llm.py 307-317: the four sections, in the order gemini, grok, gpt, claude.
FormatSelections(sr) ==
    [i \in 1..Len(Selections) |->
        [key |-> Selections[i],
         selected_by |-> SelectedBy[Selections[i]],
         entry |-> SelectionsGet(sr, Selections[i])]]

\* llm.py 294-317: the loop is over and the pool is shut down, which waits
\* for every selection call that is still running; the report is formatted.
SuperReport ==
    /\ sc_pc = "round2"
    /\ sc_next > Len(Selections)
    /\ \A n \in SelectionSet : sel_future[n] = "done"
    /\ sc_report' = FormatSelections(selection_results)
    /\ sc_pc' = "reported"
    /\ UNCHANGED <<sc_responses, sc_calls, sc_judge_calls, sel_future,
                   sel_result, sc_next, selection_results>>
    /\ UNCHANGED <<clock, store, index, turnVars, consensusVars, workerVars, callVars>>

\* llm.py 319-322: the scratch file is written and the report is returned.
SuperReturn ==
    /\ sc_pc = "reported"
    /\ sc_pc' = "returned"
    /\ UNCHANGED <<sc_responses, sc_calls, sc_judge_calls, sel_future,
                   sel_result, sc_next, selection_results, sc_report>>
    /\ UNCHANGED <<clock, store, index, turnVars, consensusVars, workerVars, callVars>>

\* llm.py 319-320: the scratch file cannot be written; the OSError leaves
\* call_superconsensus.
SuperWriteFails ==
    /\ sc_pc = "reported"
    /\ sc_pc' = "failed"
    /\ UNCHANGED <<sc_responses, sc_calls, sc_judge_calls, sel_future,
                   sel_result, sc_next, selection_results, sc_report>>
    /\ UNCHANGED <<clock, store, index, turnVars, consensusVars, workerVars, callVars>>

\* The next call of call_superconsensus.
SuperReset ==
    /\ sc_pc \in {"returned", "failed"}
    /\ sc_pc' = "idle"
    /\ sc_responses' = EmptyDict
    /\ sc_calls' = [b \in BackendSet |-> 0]
    /\ sc_judge_calls' = [b \in BackendSet |-> 0]
    /\ sel_future' = [n \in SelectionSet |-> "unsubmitted"]
    /\ sel_result' = EmptyDict
    /\ sc_next' = 1
    /\ selection_results' = EmptyDict
    /\ sc_report' = <<>>
    /\ UNCHANGED <<clock, store, index, turnVars, consensusVars, workerVars, callVars>>

\* The two fan-out tools, one call at a time.
FanOutNext ==
    \/ sc_pc = "idle" /\ ConsensusNext
    \/ SuperCall
    \/ \E c \in CallNames, kind \in {"response", "error"} : Round1Completes(c, kind)
    \/ SubmitSelections
    \/ \E n \in SelectionSet, kind \in {"response", "error"} : JudgeCompletes(n, kind)
    \/ TakeSelection
    \/ SelectionTimesOut
    \/ SuperReport
    \/ SuperReturn
    \/ SuperWriteFails
    \/ SuperReset

FanOutSpec == Init /\ [][FanOutNext]_vars

(***************************************************************************)
(* Properties of the fan-out tools.                                        *)
(***************************************************************************)
\* Round 2 of the running superconsensus has been submitted.
Round2Submitted == sc_pc \in {"round2", "reported", "returned", "failed"}

\* The backend whose two answers selection n is made between.
PairBackend(n) == model_calls[PairOf[n][1]]

\* The position of selection n in the report.
Slot(n) == CHOOSE i \in 1..Len(Selections) : Selections[i] = n

\* C12: no call is reattempted.  While a consensus query is under way every
\* backend has been called exactly once; while a superconsensus is under
\* way every backend has been called exactly twice in round 1 (8 calls) and,
\* once round 2 is submitted, exactly four selection calls have been issued
\* and none before; whichever calls failed or timed out.
C12_NoReattempt ==
    /\ cq_pc # "idle" => \A b \in BackendSet : cq_calls[b] = 1
    /\ cq_pc = "idle" => \A b \in BackendSet : cq_calls[b] = 0
    /\ sc_pc # "idle" => \A b \in BackendSet : sc_calls[b] = 2
    /\ sc_pc = "idle" => \A b \in BackendSet : sc_calls[b] = 0
    /\ Round2Submitted =>
          sc_judge_calls["gemini"] + sc_judge_calls["grok"]
            + sc_judge_calls["gpt"] + sc_judge_calls["claude"] = 4
    /\ ~Round2Submitted => \A b \in BackendSet : sc_judge_calls[b] = 0

C12_Witness ==
    /\ sc_pc = "returned"
    /\ sc_responses["grok_1"].kind = "error"
    /\ sc_responses["grok_2"].kind = "response"
    /\ sc_report[1].entry.kind = "error"
    /\ sc_report[3].entry = SelectionFailed

C14_JudgeCycle ==
    Round2Submitted
    => \A b \in BackendSet : sc_judge_calls[b] = 1

\* C15: what call_superconsensus returns has exactly the four sections
\* best_gemini, best_grok, best_gpt, best_claude, whichever round-1 calls and
\* selection calls failed: every section holds what its own selection call
\* returned or the placeholder, never nothing.
C15_FourSelections ==
    sc_pc = "returned"
    => /\ Len(sc_report) = 4
       /\ \A i \in 1..Len(sc_report) :
             /\ sc_report[i].key = Selections[i]
             /\ sc_report[i].entry \in {sel_result[Selections[i]], SelectionFailed}
             /\ sc_report[i].entry.kind \in {"response", "error", "Selection failed"}
             /\ sc_report[i].entry.kind # "Selection failed"
                   => /\ sc_report[i].entry.from = Judge[Selections[i]]
                      /\ sc_report[i].entry.from # PairBackend(Selections[i])

C15_Witness ==
    /\ sc_pc = "returned"
    /\ sc_responses["gemini_1"].kind = "error"
    /\ sc_responses["gemini_2"].kind = "error"
    /\ sc_report[1].entry.kind = "response"
    /\ sc_report[2].entry.kind = "error"
    /\ sc_report[3].entry = SelectionFailed
    /\ sc_report[4].entry.kind = "response"

\* C16 (as stated): in the report that is returned, the section of every
\* selection whose judge call failed (the backend function met an error, or
\* the wait for the call timed out) holds the placeholder.
C16_FailedSelectionPlaceholder ==
    sc_pc = "returned"
    => \A n \in SelectionSet :
          (sel_result[n].kind = "error" \/ selection_results[n] = SelectionFailed)
          => sc_report[Slot(n)].entry = SelectionFailed

\* C17 (as stated): the report that is returned is a function of what the
\* backend calls returned alone: section i is the selection Selections[i],
\* holding what its judge returned for the two round-1 answers of its
\* backend, in whatever order the calls of both rounds completed.
C17_ReportDetermined ==
    sc_pc = "returned"
    => sc_report =
          [i \in 1..Len(Selections) |->
              [key |-> Selections[i],
               selected_by |-> SelectedBy[Selections[i]],
               entry |-> Selection(sel_result[Selections[i]].kind,
                                   Judge[Selections[i]],
                                   PairSeen(sc_responses, Selections[i]))]]

(***************************************************************************)
(* The store under its callers.  save_conversation and update_conversation *)
(* write the record of the id and then run add_conversation_to_index,      *)
(* which loads the whole index, asks for the summary, changes the entry    *)
(* of the id in its copy and writes the whole copy back.  No lock is       *)
(* taken anywhere.  parallel_client.py runs every voice command in a       *)
(* thread of its own, so these steps of two calls can interleave.          *)
(***************************************************************************)
\* A thread calls a function of the store.
StoreCall(w, op, id, msgs) ==
    /\ w_pc[w] = "idle"
    /\ ops < MaxOps
    /\ ops' = ops + 1
    /\ w_op' = [w_op EXCEPT ![w] = op]
    /\ w_id' = [w_id EXCEPT ![w] = id]
    /\ w_msgs' = [w_msgs EXCEPT ![w] = msgs]
    /\ w_pc' = [w_pc EXCEPT ![w] = "called"]
    /\ UNCHANGED <<w_index, w_loaded, w_clean, w_result, index_torn>>
    /\ UNCHANGED <<clock, store, index, turnVars, consensusVars, superVars, callVars>>

\* conversations.py 15-26 and 44-55, 59: the record of the id is written.
WriteRecord(w) ==
    /\ w_pc[w] = "called"
    /\ w_op[w] \in {"save", "update"}
    /\ store' = IF w_op[w] = "save"
                THEN save_conversation(store, w_id[w], w_msgs[w])
                ELSE update_conversation(store, w_id[w], w_msgs[w])
    /\ w_clean' = [v \in Workers |->
                      IF v = w THEN TRUE
                      ELSE IF w_id[v] = w_id[w] THEN FALSE
                      ELSE w_clean[v]]
    /\ w_pc' = [w_pc EXCEPT ![w] = "record_written"]
    /\ UNCHANGED <<w_op, w_id, w_msgs, w_index, w_loaded, w_result, index_torn, ops>>
    /\ UNCHANGED <<clock, index, turnVars, consensusVars, superVars, callVars>>

\* conversation_index.py 65 and conversations.py 94: index = load_index().
\* json.load raises on a file that save_index has opened and not yet
\* written; add_conversation_to_index lets the exception out of the store
\* function, delete_conversation turns it into its error payload.
LoadIndex(w) ==
    /\ w_pc[w] \in {"record_written", "record_removed"}
    /\ IF index_torn
       THEN /\ w_pc' = [w_pc EXCEPT ![w] =
                           IF w_op[w] = "delete" THEN "returned" ELSE "raised"]
            /\ w_result' = [w_result EXCEPT ![w] =
                               IF w_op[w] = "delete" THEN "error" ELSE "raised"]
            /\ UNCHANGED w_index
       ELSE /\ w_index' = [w_index EXCEPT ![w] = index]
            /\ w_pc' = [w_pc EXCEPT ![w] = "index_loaded"]
            /\ UNCHANGED w_result
    /\ UNCHANGED <<w_op, w_id, w_msgs, w_loaded, w_clean, index_torn, ops>>
    /\ UNCHANGED <<clock, store, index, turnVars, consensusVars, superVars, callVars>>

\* conversation_index.py 67-88 and 29, conversations.py 95-96 and 29: the
\* thread changes the copy it loaded (the summary arrives and the entry of
\* the id is put in, or the entries of the id are taken out), and save_index
\* opens the index file for writing, which empties it.
OpenIndex(w, summary) ==
    /\ w_pc[w] = "index_loaded"
    /\ w_index' = [w_index EXCEPT ![w] =
                      IF w_op[w] = "delete"
                      THEN remove_from_index(w_index[w], w_id[w])
                      ELSE add_conversation_to_index(w_index[w], w_id[w],
                                                     w_msgs[w], summary)]
    /\ index' = <<>>
    /\ index_torn' = TRUE
    /\ w_pc' = [w_pc EXCEPT ![w] = "index_opened"]
    /\ UNCHANGED <<w_op, w_id, w_msgs, w_loaded, w_clean, w_result, ops>>
    /\ UNCHANGED <<clock, store, turnVars, consensusVars, superVars, callVars>>

\* conversation_index.py 30: json.dump writes the copy and the file is
\* closed; the store function returns.
DumpIndex(w) ==
    /\ w_pc[w] = "index_opened"
    /\ index' = w_index[w]
    /\ index_torn' = FALSE
    /\ w_index' = [w_index EXCEPT ![w] = <<>>]
    /\ w_result' = [w_result EXCEPT ![w] =
                       IF w_op[w] = "delete" THEN "success" ELSE "none"]
    /\ w_pc' = [w_pc EXCEPT ![w] = "returned"]
    /\ UNCHANGED <<w_op, w_id, w_msgs, w_loaded, w_clean, ops>>
    /\ UNCHANGED <<clock, store, turnVars, consensusVars, superVars, callVars>>

\* The thread reads the conversation back: load_conversation(id).
LoadConversation(w) ==
    /\ w_pc[w] = "returned"
    /\ w_op[w] \in {"save", "update"}
    /\ w_loaded' = [w_loaded EXCEPT ![w] = load_conversation(store, w_id[w])]
    /\ w_pc' = [w_pc EXCEPT ![w] = "loaded"]
    /\ UNCHANGED <<w_op, w_id, w_msgs, w_index, w_clean, w_result, index_torn, ops>>
    /\ UNCHANGED <<clock, store, index, turnVars, consensusVars, superVars, callVars>>

\* The thread is done with the call.
Finish(w) ==
    /\ w_pc[w] \in {"returned", "loaded", "raised"}
    /\ w_pc' = [w_pc EXCEPT ![w] = "idle"]
    /\ w_op' = [w_op EXCEPT ![w] = "none"]
    /\ w_id' = [w_id EXCEPT ![w] = NoId]
    /\ w_msgs' = [w_msgs EXCEPT ![w] = <<>>]
    /\ w_index' = [w_index EXCEPT ![w] = <<>>]
    /\ w_loaded' = [w_loaded EXCEPT ![w] = <<>>]
    /\ w_result' = [w_result EXCEPT ![w] = "none"]
    /\ w_clean' = [w_clean EXCEPT ![w] = TRUE]
    /\ UNCHANGED <<index_torn, ops>>
    /\ UNCHANGED <<clock, store, index, turnVars, consensusVars, superVars, callVars>>

StoreSteps ==
    \/ \E w \in Workers : WriteRecord(w)
    \/ \E w \in Workers : LoadIndex(w)
    \/ \E w \in Workers, summary \in Summaries : OpenIndex(w, summary)
    \/ \E w \in Workers : DumpIndex(w)
    \/ \E w \in Workers : LoadConversation(w)
    \/ \E w \in Workers : Finish(w)

\* Threads that save and update conversations whenever they like.
StoreNext ==
    \/ \E w \in Workers, op \in {"save", "update"}, id \in Ids, msgs \in MessageLists :
          StoreCall(w, op, id, msgs)
    \/ StoreSteps

StoreSpec == Init /\ [][StoreNext]_vars

\* A store call of thread w is under way.
InCall(w) ==
    w_pc[w] \in {"called", "record_written", "record_removed", "records_removed",
                 "index_loaded", "index_opened"}

\* Callers that call the store one after the other (client.py: one turn at
\* a time): a call starts when no other call is under way.
SerialStoreNext ==
    \/ \E w \in Workers, op \in {"save", "update"}, id \in Ids, msgs \in MessageLists :
          /\ \A v \in Workers : ~InCall(v)
          /\ StoreCall(w, op, id, msgs)
    \/ StoreSteps

SerialStoreSpec == Init /\ [][SerialStoreNext]_vars

(***************************************************************************)
(* The rest of the store: delete_conversation, clear_conversation_history  *)
(* and the functions that only read.                                       *)
(***************************************************************************)
\* Variant: a missing record is passed over and the index is updated all
\* the same.
RemoveRecord_missing_ok(w) ==
    /\ w_pc[w] = "called"
    /\ w_op[w] = "delete"
    /\ store' = [store EXCEPT ![w_id[w]] = NoRecord]
    /\ w_pc' = [w_pc EXCEPT ![w] = "record_removed"]
    /\ UNCHANGED <<w_op, w_id, w_msgs, w_index, w_loaded, w_clean, w_result,
                   index_torn, ops>>
    /\ UNCHANGED <<clock, index, turnVars, consensusVars, superVars, callVars>>

\* conversations.py 88-90 and 99-100: the record of the id is removed; when
\* there is none the function returns its not-found payload at once.
RemoveRecord(w) ==
    /\ w_pc[w] = "called"
    /\ w_op[w] = "delete"
    /\ IF store[w_id[w]].exists
       THEN /\ store' = [store EXCEPT ![w_id[w]] = NoRecord]
            /\ w_pc' = [w_pc EXCEPT ![w] = "record_removed"]
            /\ UNCHANGED w_result
       ELSE /\ w_pc' = [w_pc EXCEPT ![w] = "returned"]
            /\ w_result' = [w_result EXCEPT ![w] = "not found"]
            /\ UNCHANGED store
    /\ w_clean' = [v \in Workers |->
                      IF v # w /\ w_id[v] = w_id[w] /\ store[w_id[w]].exists
                      THEN FALSE ELSE w_clean[v]]
    /\ UNCHANGED <<w_op, w_id, w_msgs, w_index, w_loaded, index_torn, ops>>
    /\ UNCHANGED <<clock, index, turnVars, consensusVars, superVars, callVars>>

\* Variant: the records and the index go in one step.
RemoveRecords_and_index(w) ==
    /\ w_pc[w] = "called"
    /\ w_op[w] = "clear"
    /\ store' = ClearedStore
    /\ index' = <<>>
    /\ w_pc' = [w_pc EXCEPT ![w] = "records_removed"]
    /\ UNCHANGED <<w_op, w_id, w_msgs, w_index, w_loaded, w_clean, w_result,
                   index_torn, ops>>
    /\ UNCHANGED <<clock, turnVars, consensusVars, superVars, callVars>>

\* conversations.py 72-73: rmtree removes the directory of the records.
RemoveRecords(w) ==
    /\ w_pc[w] = "called"
    /\ w_op[w] = "clear"
    /\ store' = ClearedStore
    /\ w_clean' = [v \in Workers |-> v = w /\ w_clean[v]]
    /\ w_pc' = [w_pc EXCEPT ![w] = "records_removed"]
    /\ UNCHANGED <<w_op, w_id, w_msgs, w_index, w_loaded, w_result, index_torn, ops>>
    /\ UNCHANGED <<clock, index, turnVars, consensusVars, superVars, callVars>>

\* Variant: the success payload is returned with the index file left alone.
RemoveIndex_skipped(w) ==
    /\ w_pc[w] = "records_removed"
    /\ w_result' = [w_result EXCEPT ![w] = "success"]
    /\ w_pc' = [w_pc EXCEPT ![w] = "returned"]
    /\ UNCHANGED <<w_op, w_id, w_msgs, w_index, w_loaded, w_clean, index_torn, ops>>
    /\ UNCHANGED <<clock, store, index, turnVars, consensusVars, superVars, callVars>>

\* conversations.py 76-80: the index file is removed and the success
\* payload is returned.
RemoveIndex(w) ==
    /\ w_pc[w] = "records_removed"
    /\ index' = <<>>
    /\ index_torn' = FALSE
    /\ w_result' = [w_result EXCEPT ![w] = "success"]
    /\ w_pc' = [w_pc EXCEPT ![w] = "returned"]
    /\ UNCHANGED <<w_op, w_id, w_msgs, w_index, w_loaded, w_clean, ops>>
    /\ UNCHANGED <<clock, store, turnVars, consensusVars, superVars, callVars>>

\* conversations.py 78, 81-82: an exception arrives after rmtree and before
\* the index file is gone (os.remove raises, or the deadline of the tool
\* call fires); the function returns its error payload and the index file
\* stays as it was.
RemoveIndexFails(w) ==
    /\ w_pc[w] = "records_removed"
    /\ w_result' = [w_result EXCEPT ![w] = "error"]
    /\ w_pc' = [w_pc EXCEPT ![w] = "returned"]
    /\ UNCHANGED <<w_op, w_id, w_msgs, w_index, w_loaded, w_clean, index_torn, ops>>
    /\ UNCHANGED <<clock, store, index, turnVars, consensusVars, superVars, callVars>>

\* conversation_index.py 94 and 109-123: lookup_past_conversations runs
\* search_conversations, which loads the index; neither catches anything.
\* w_index keeps the list that load_index returned.
Lookup(w) ==
    /\ w_pc[w] = "called"
    /\ w_op[w] = "lookup"
    /\ IF index_torn
       THEN /\ w_pc' = [w_pc EXCEPT ![w] = "raised"]
            /\ w_result' = [w_result EXCEPT ![w] = "raised"]
            /\ UNCHANGED w_index
       ELSE /\ w_pc' = [w_pc EXCEPT ![w] = "returned"]
            /\ w_result' = [w_result EXCEPT ![w] =
                               IF index = <<>> THEN "message" ELSE "conversations"]
            /\ w_index' = [w_index EXCEPT ![w] = index]
    /\ UNCHANGED <<w_op, w_id, w_msgs, w_loaded, w_clean, index_torn, ops>>
    /\ UNCHANGED <<clock, store, index, turnVars, consensusVars, superVars, callVars>>

\* The total list_conversations reports: the number of index entries.
list_total(ix) == Len(ix)

\* Variant: the entries whose record is missing are taken out of the file.
ListConversations_prunes(w) ==
    /\ w_pc[w] = "called"
    /\ w_op[w] = "list"
    /\ index' = SelectSeq(index, LAMBDA entry : store[entry.id].exists)
    /\ w_index' = [w_index EXCEPT ![w] = index']
    /\ w_result' = [w_result EXCEPT ![w] = "conversations"]
    /\ w_pc' = [w_pc EXCEPT ![w] = "returned"]
    /\ UNCHANGED <<w_op, w_id, w_msgs, w_loaded, w_clean, index_torn, ops>>
    /\ UNCHANGED <<clock, store, turnVars, consensusVars, superVars, callVars>>

\* conversations.py 107-122: list_conversations loads the index and returns
\* its entries and their number; an exception becomes its error payload.
ListConversations(w) ==
    /\ w_pc[w] = "called"
    /\ w_op[w] = "list"
    /\ IF index_torn
       THEN /\ w_result' = [w_result EXCEPT ![w] = "error"]
            /\ UNCHANGED w_index
       ELSE /\ w_result' = [w_result EXCEPT ![w] = "conversations"]
            /\ w_index' = [w_index EXCEPT ![w] = index]
    /\ w_pc' = [w_pc EXCEPT ![w] = "returned"]
    /\ UNCHANGED <<w_op, w_id, w_msgs, w_loaded, w_clean, index_torn, ops>>
    /\ UNCHANGED <<clock, store, index, turnVars, consensusVars, superVars, callVars>>

\* conversations.py 33-40: load_conversation(id) called on its own.
ReadConversation(w) ==
    /\ w_pc[w] = "called"
    /\ w_op[w] = "load"
    /\ w_loaded' = [w_loaded EXCEPT ![w] = load_conversation(store, w_id[w])]
    /\ w_pc' = [w_pc EXCEPT ![w] = "returned"]
    /\ UNCHANGED <<w_op, w_id, w_msgs, w_index, w_clean, w_result, index_torn, ops>>
    /\ UNCHANGED <<clock, store, index, turnVars, consensusVars, superVars, callVars>>

HistorySteps ==
    \/ \E w \in Workers : RemoveRecord(w)
    \/ \E w \in Workers : RemoveRecords(w)
    \/ \E w \in Workers : RemoveIndex(w)
    \/ \E w \in Workers : RemoveIndexFails(w)
    \/ \E w \in Workers : Lookup(w)
    \/ \E w \in Workers : ListConversations(w)
    \/ \E w \in Workers : ReadConversation(w)

HistoryCalls(w) ==
    \/ \E op \in {"save", "update"}, id \in Ids, msgs \in MessageLists :
          StoreCall(w, op, id, msgs)
    \/ \E op \in {"delete", "load"}, id \in Ids : StoreCall(w, op, id, <<>>)
    \/ \E op \in {"clear", "lookup", "list"} : StoreCall(w, op, NoId, <<>>)

\* Threads that call every function of the store whenever they like.
HistoryNext ==
    \/ \E w \in Workers : HistoryCalls(w)
    \/ StoreSteps
    \/ HistorySteps

HistorySpec == Init /\ [][HistoryNext]_vars

\* The same calls made one after the other.
SerialHistoryNext ==
    \/ \E w \in Workers :
          /\ \A v \in Workers : ~InCall(v)
          /\ HistoryCalls(w)
    \/ StoreSteps
    \/ HistorySteps

SerialHistorySpec == Init /\ [][SerialHistoryNext]_vars

(***************************************************************************)
(* Properties of the store.                                                *)
(***************************************************************************)
\* The store function thread w called has returned.
Returned(w) == w_pc[w] \in {"returned", "loaded"}

\* C18: when calls of save_conversation and update_conversation are made one
\* after the other, on whatever ids and with whatever messages, then
\* whenever the calls made so far have returned, the index has one entry
\* for the id of every call, and for every id that has a record, and its
\* message_count is the length of the message sequence that is persisted in
\* the record of that id.
C18_CountMatchesRecord ==
    (\A v \in Workers : ~InCall(v))
    => \A id \in Ids :
          (store[id].exists \/ \E w \in Workers : Returned(w) /\ w_id[w] = id)
          => /\ store[id].exists
             /\ Cardinality(EntriesOf(id)) = 1
             /\ \A i \in EntriesOf(id) :
                   index[i].message_count = Len(Persisted(id))

C18_Witness ==
    /\ w_pc[1] = "returned"
    /\ w_op[1] = "update"
    /\ Len(index) = 2
    /\ index[1].id = w_id[1]
    /\ index[1].message_count = 5
    /\ ops = 3

\* C19 (as stated): when the calls of two threads for two different ids
\* have both returned, the index has an entry for each of the two ids, each
\* with the message_count of that conversation.
C19_NoLostIndexUpdate ==
    \A w1, w2 \in Workers :
        (Returned(w1) /\ Returned(w2) /\ w_id[w1] # w_id[w2])
        => \A w \in {w1, w2} :
              /\ EntriesOf(w_id[w]) # {}
              /\ \A i \in EntriesOf(w_id[w]) :
                    index[i].message_count = Len(Persisted(w_id[w]))

\* C20: when save_conversation(id, M) or update_conversation(id, M) has
\* returned and load_conversation(id) is called next, with no other write
\* to the record of id since the write of M, it returns M: the same
\* messages in the same order.
C20_RoundTrip ==
    \A w \in Workers :
        (w_pc[w] = "loaded" /\ w_clean[w])
        => /\ w_loaded[w] = w_msgs[w]
           /\ Len(w_loaded[w]) = Len(w_msgs[w])
           /\ \A i \in 1..Len(w_msgs[w]) : w_loaded[w][i] = w_msgs[w][i]

C20_Witness ==
    /\ w_pc[1] = "loaded"
    /\ w_op[1] = "update"
    /\ w_clean[1]
    /\ w_pc[2] = "loaded"
    /\ w_op[2] = "save"
    /\ w_clean[2]
    /\ w_id[1] # w_id[2]
    /\ Len(w_loaded[1]) = 5
    /\ w_loaded[1][3].tool_calls = <<Call("web_search", "valid")>>
    /\ w_loaded[2] = <<SystemMsg, UserMsg, Msg("assistant", "r1", <<>>)>>

(***************************************************************************)
(* Properties of the whole store.                                          *)
(***************************************************************************)
\* The entries of a list whose id is not id, in their order.
OtherEntries(ix, id) == SelectSeq(ix, LAMBDA entry : entry.id # id)

\* The positions of the entries of id in a list.
PositionsOf(ix, id) == {i \in 1..Len(ix) : ix[i].id = id}

\* The step in which thread w puts the entry of its id into the index it
\* loaded (save_conversation or update_conversation).
UpsertStep(w) ==
    /\ w_pc[w] = "index_loaded"
    /\ w_pc'[w] = "index_opened"
    /\ w_op[w] \in {"save", "update"}

C21_Upsert ==
    \A w \in Workers :
        UpsertStep(w)
        => LET old == w_index[w]
               new == w_index'[w]
               id == w_id[w]
           IN  /\ OtherEntries(new, id) = OtherEntries(old, id)
               /\ Cardinality(PositionsOf(new, id)) = 1
               /\ \A i \in PositionsOf(new, id) :
                      new[i].message_count = Len(w_msgs[w])
               /\ IF PositionsOf(old, id) # {}
                  THEN /\ Len(new) = Len(old)
                       /\ PositionsOf(new, id) = PositionsOf(old, id)
                  ELSE /\ Len(new) = Len(old) + 1
                       /\ PositionsOf(new, id) = {Len(new)}

\* The step in which save_index writes the list of thread w to the file.
C21_Dump ==
    \A w \in Workers :
        (w_pc[w] = "index_opened" /\ w_pc'[w] = "returned") => index' = w_index[w]

C21_OneEntryPerId ==
    /\ \A id \in Ids : Cardinality(EntriesOf(id)) <= 1
    /\ \A w \in Workers, id \in Ids : Cardinality(PositionsOf(w_index[w], id)) <= 1

\* C21: add_conversation_to_index puts the entry of the id where the entry
\* of that id was, or at the end when there was none, and leaves the
\* entries of the other ids in their order; the list it writes is the list
\* the file holds afterwards; and whatever saves, updates, deletes and
\* clears are called, the index never has two entries of one id.
C21_UpsertInPlace ==
    /\ []C21_OneEntryPerId
    /\ [][C21_Upsert /\ C21_Dump]_vars

C21_Witness ==
    /\ w_pc[1] = "returned"
    /\ w_op[1] = "update"
    /\ Len(index) = 2
    /\ index[1].id = w_id[1]
    /\ index[1].message_count = 3
    /\ index[2].id # w_id[1]
    /\ index[2].message_count = 5

\* C22 (as stated): a call of lookup_past_conversations (and of
\* search_conversations, which it runs) never ends in an exception: it
\* returns a result whatever the index file holds and whatever the other
\* threads are doing to it.
C22_LookupNeverRaises ==
    \A w \in Workers : w_op[w] = "lookup" => w_pc[w] # "raised"

(***************************************************************************)
(* search_conversations and lookup_past_conversations as functions of the  *)
(* index they load and of the query.  Summaries and queries are sequences  *)
(* of characters.                                                          *)
(***************************************************************************)
MaxEntries == 3
LookupLimit == 5
Stamps == {1, 2}
SummaryTexts == { <<"A", "b">>, <<"b", "A", "b">>, <<"c">>, <<"B">> }
Queries == { <<>>, <<"a">>, <<"a", "B">>, <<"B">>, <<"c", "c">> }

\* str.lower on one character and on a text.
LowerChar(c) ==
    CASE c = "A" -> "a"
      [] c = "B" -> "b"
      [] c = "C" -> "c"
      [] OTHER -> c

lower(text) == [i \in 1..Len(text) |-> LowerChar(text[i])]

\* Python's  q in text  on strings.
Contains(text, q) ==
    \E i \in 0..(Len(text) - Len(q)) : SubSeq(text, i + 1, i + Len(q)) = q

\* list.sort(key=last_updated, reverse=True): a stable sort, entries with
\* equal keys keep the order they had.
InsertDescending(sorted, entry) ==
    LET p == Cardinality({i \in 1..Len(sorted) :
                             sorted[i].last_updated >= entry.last_updated})
    IN  SubSeq(sorted, 1, p) \o <<entry>> \o SubSeq(sorted, p + 1, Len(sorted))

RECURSIVE sort_descending(_)
sort_descending(list) ==
    IF list = <<>> THEN <<>>
    ELSE InsertDescending(sort_descending(SubSeq(list, 1, Len(list) - 1)),
                          list[Len(list)])

\* Variant: the summaries and the query are compared as they are.
search_conversations_case_sensitive(ix, query) ==
    sort_descending(SelectSeq(ix, LAMBDA entry : Contains(entry.summary, query)))

search_conversations(ix, query) ==
    LET query_lower == lower(query)
        matching_conversations ==
            SelectSeq(ix, LAMBDA entry : Contains(lower(entry.summary), query_lower))
    IN  sort_descending(matching_conversations)

lookup_past_conversations(ix, query) ==
    LET matches == search_conversations(ix, query)
        shown == IF Len(matches) < LookupLimit THEN Len(matches) ELSE LookupLimit
    IN  IF matches = <<>>
        THEN [message |-> "No matching conversations found"]
        ELSE [conversations |->
                 [i \in 1..shown |->
                     [id |-> matches[i].id,
                      summary |-> matches[i].summary,
                      message_count |-> matches[i].message_count,
                      last_updated |-> matches[i].last_updated]]]

\* The index files a call can find: up to MaxEntries entries, one per id.
SearchEntry(i, text, stamp) ==
    [id |-> i, summary |-> text, message_count |-> 3, last_updated |-> stamp,
     filename |-> i]

SearchIndexes ==
    UNION { { [i \in 1..n |-> SearchEntry(i, f[i][1], f[i][2])] :
                f \in [1..n -> SummaryTexts \X Stamps] } : n \in 0..MaxEntries }

SearchInit ==
    /\ InitProgram
    /\ \E ix \in SearchIndexes, q \in Queries :
          search = [pc |-> "input", index |-> ix, query |-> q, matches |-> <<>>,
                    payload |-> NoPayload]
    /\ guard = NoGuard
    /\ InitCallers

Search ==
    /\ search.pc = "input"
    /\ search' = [search EXCEPT !.pc = "searched",
                                !.matches = search_conversations(search.index, search.query)]
    /\ UNCHANGED <<clock, store, index, turnVars, consensusVars, superVars, workerVars,
                   guard, callerVars>>

LookupPast ==
    /\ search.pc = "input"
    /\ search' = [search EXCEPT !.pc = "looked up",
                                !.matches = search_conversations(search.index, search.query),
                                !.payload = lookup_past_conversations(search.index, search.query)]
    /\ UNCHANGED <<clock, store, index, turnVars, consensusVars, superVars, workerVars,
                   guard, callerVars>>

SearchNext == Search \/ LookupPast

SearchSpec == SearchInit /\ [][SearchNext]_vars

\* Two texts are equal when case is ignored.
EqualIgnoringCase(a, b) ==
    /\ Len(a) = Len(b)
    /\ \A k \in 1..Len(a) : LowerChar(a[k]) = LowerChar(b[k])

\* The summary has the query as a substring when case is ignored.
Matches(entry, query) ==
    \E i \in 1..(Len(entry.summary) + 1), j \in 0..Len(entry.summary) :
        EqualIgnoringCase(SubSeq(entry.summary, i, j), query)

MatchingPositions == {j \in 1..Len(search.index) : Matches(search.index[j], search.query)}

\* C23: search_conversations returns the entries of the index whose
\* summary has the query as a substring when case is ignored, each of them
\* once and no other entry, the later last_updated first; and
\* lookup_past_conversations returns the message "No matching conversations
\* found", with no list of conversations, exactly when no entry matches,
\* and a non-empty list of conversations otherwise.
C23_SearchExact ==
    /\ search.pc \in {"searched", "looked up"}
       => /\ Len(search.matches) = Cardinality(MatchingPositions)
          /\ \A j \in MatchingPositions :
                \E i \in 1..Len(search.matches) : search.matches[i] = search.index[j]
          /\ \A i \in 1..Len(search.matches) :
                \E j \in MatchingPositions : search.matches[i] = search.index[j]
          /\ \A i, k \in 1..Len(search.matches) :
                i < k => search.matches[i].last_updated >= search.matches[k].last_updated
    /\ search.pc = "looked up"
       => IF MatchingPositions = {}
          THEN /\ DOMAIN search.payload = {"message"}
               /\ search.payload.message = "No matching conversations found"
          ELSE /\ DOMAIN search.payload = {"conversations"}
               /\ Len(search.payload.conversations) >= 1
               /\ \A i \in 1..Len(search.payload.conversations) :
                     search.payload.conversations[i].id = search.matches[i].id

C23_Witness ==
    /\ search.pc = "looked up"
    /\ search.query = <<"a", "B">>
    /\ Len(search.index) = 3
    /\ search.index[1].summary = <<"A", "b">>
    /\ search.index[1].last_updated = 1
    /\ search.index[2].summary = <<"c">>
    /\ search.index[3].summary = <<"b", "A", "b">>
    /\ search.index[3].last_updated = 2
    /\ Len(search.payload.conversations) = 2
    /\ search.payload.conversations[1].id = 3
    /\ search.payload.conversations[2].id = 1

\* C24 (as stated): when delete_conversation(id) has returned, and nobody
\* has written the record of id since, there is no record of id and no
\* index entry of id.
C24_DeletedGone ==
    \A w \in Workers :
        (w_op[w] = "delete" /\ w_pc[w] = "returned" /\ w_clean[w])
        => /\ ~store[w_id[w]].exists
           /\ EntriesOf(w_id[w]) = {}

\* The step in which delete_conversation of thread w looks for the record.
DeleteLooks(w) ==
    /\ w_op[w] = "delete"
    /\ w_pc[w] = "called"
    /\ w_pc'[w] # "called"

\* C25: delete_conversation(id) called when id has no record returns at
\* once with the payload that says the conversation was not found, and
\* changes no record and no index entry; and it gives that payload in no
\* other case.
C25_NotFound ==
    [][\A w \in Workers :
          DeleteLooks(w)
          => IF store[w_id[w]].exists
             THEN w_result'[w] # "not found"
             ELSE /\ w_pc'[w] = "returned"
                  /\ w_result'[w] = "not found"
                  /\ store' = store
                  /\ index' = index]_vars

C25_Witness ==
    /\ w_op[1] = "delete"
    /\ w_pc[1] = "returned"
    /\ w_result[1] = "not found"
    /\ w_id[1] = 2
    /\ store[1].exists
    /\ ~store[2].exists
    /\ Len(index) = 1
    /\ index[1].id = 1

\* The step in which clear_conversation_history of thread w returns its
\* success payload.
ClearSucceeds(w) ==
    /\ w_op[w] = "clear"
    /\ w_pc[w] # "returned"
    /\ w_pc'[w] = "returned"
    /\ w_result'[w] = "success"

\* C26: when clear_conversation_history returns its success payload (the
\* calls being made one after the other), load_conversation returns the
\* empty list for every id, and the index holds no entry, so that
\* list_conversations reports a total of 0.
C26_Cleared ==
    [][\A w \in Workers :
          ClearSucceeds(w)
          => /\ \A id \in Ids :
                   /\ ~store'[id].exists
                   /\ load_conversation(store', id) = <<>>
             /\ ~index_torn'
             /\ index' = <<>>
             /\ list_total(index') = 0]_vars

C26_Witness ==
    /\ w_op[2] = "clear"
    /\ w_pc[2] = "returned"
    /\ w_result[2] = "success"
    /\ w_op[1] = "update"
    /\ w_pc[1] = "returned"
    /\ \A id \in Ids : load_conversation(store, id) = <<>>
    /\ list_total(index) = 0
    /\ ops = 3

\* The index lists a conversation that has no record.
Stale == \E i \in 1..Len(index) : ~store[index[i].id].exists

ReadOps == {"load", "lookup", "list"}

\* A step of a function that only reads, or the reading back after a save.
ReadStep(w) ==
    /\ w_pc'[w] # w_pc[w]
    /\ \/ w_op[w] \in ReadOps
       \/ w_pc'[w] = "loaded"

\* C27: clear_conversation_history removes the records in one step and
\* the index in a later one: the step that removes the records leaves the
\* index as it is; when the function stops after it (the removal of the
\* index fails and the error payload is returned), every conversation the
\* index lists has no record; and a read that follows changes neither the
\* index nor the records, so the listing of the missing conversations stays.
C27_StaleIndexStays ==
    [][\A w \in Workers :
          /\ (w_op[w] = "clear" /\ w_pc[w] = "called" /\ w_pc'[w] # "called")
             => /\ w_pc'[w] = "records_removed"
                /\ index' = index
                /\ \A id \in Ids : ~store'[id].exists
          /\ (w_op[w] = "clear" /\ w_pc[w] = "records_removed"
                /\ w_result'[w] = "error")
             => /\ index' = index
                /\ \A i \in 1..Len(index') : ~store'[index'[i].id].exists
          /\ (Stale /\ ReadStep(w))
             => /\ Stale'
                /\ index' = index
                /\ store' = store]_vars

C27_Witness ==
    /\ w_op[2] = "clear"
    /\ w_pc[2] = "returned"
    /\ w_result[2] = "error"
    /\ w_op[1] = "lookup"
    /\ w_pc[1] = "returned"
    /\ w_result[1] = "conversations"
    /\ w_index[1] = index
    /\ Len(index) = 1
    /\ Stale
    /\ \A id \in Ids : ~store[id].exists

WriteOps == {"save", "update", "delete", "clear"}

\* Thread w takes a step of the store function it called.
StepOf(w) == w_pc'[w] # w_pc[w] /\ w_pc[w] # "idle"

\* C29: a step of load_conversation, search_conversations,
\* lookup_past_conversations or list_conversations changes no record and
\* leaves the index file as it is; whenever the index file changes, the
\* step is one of save_conversation, update_conversation,
\* delete_conversation or clear_conversation_history.
C29_ReadsChangeNothing ==
    [][/\ \A w \in Workers :
             (StepOf(w) /\ (w_op[w] \in ReadOps \/ w_pc'[w] = "loaded"))
             => /\ store' = store
                /\ index' = index
                /\ index_torn' = index_torn
       /\ (index' # index \/ index_torn' # index_torn)
             => \E w \in Workers : StepOf(w) /\ w_op[w] \in WriteOps]_vars

C29_Witness ==
    /\ w_op[1] = "list"
    /\ w_pc[1] = "returned"
    /\ w_result[1] = "conversations"
    /\ w_index[1] = index
    /\ Len(index) = 1
    /\ w_op[2] = "load"
    /\ w_pc[2] = "returned"
    /\ Len(w_loaded[2]) = 5
    /\ Persisted(w_id[2]) = w_loaded[2]

(***************************************************************************)
(* The Timeout guard (timeout.py) in the main thread, with time in whole   *)
(* seconds, the unit of signal.alarm.  guard.alarm is the time left on the *)
(* alarm of the process (0: none), guard.pending says that SIGALRM has     *)
(* arrived and handle_timeout has not run yet, guard.elapsed counts the    *)
(* seconds since the guard was entered.                                    *)
(***************************************************************************)
MaxSeconds == 3
MaxGuards == 2
Deadlines == 1..MaxSeconds

\* Variant: the handler is installed and no alarm is set.
Enter_no_alarm(s) ==
    /\ guard.pc \in {"outside", "left"}
    /\ guard.entered < MaxGuards
    /\ guard' = [guard EXCEPT !.pc = "block", !.seconds = s, !.elapsed = 0,
                              !.error = FALSE, !.ended = 0,
                              !.entered = guard.entered + 1]
    /\ UNCHANGED <<clock, store, index, turnVars, consensusVars, superVars, workerVars,
                   search, callerVars>>

\* timeout.py 15-17: __enter__ installs handle_timeout and sets the alarm;
\* the block starts.
Enter(s) ==
    /\ guard.pc \in {"outside", "left"}
    /\ guard.entered < MaxGuards
    /\ guard' = [guard EXCEPT !.pc = "block", !.seconds = s, !.elapsed = 0,
                              !.alarm = s, !.error = FALSE, !.ended = 0,
                              !.entered = guard.entered + 1]
    /\ UNCHANGED <<clock, store, index, turnVars, consensusVars, superVars, workerVars,
                   search, callerVars>>

\* A second passes; an alarm that runs out delivers SIGALRM to the process.
\* The block may be in code that lets no handler run, so seconds can also
\* pass with the signal pending.
Second ==
    /\ guard.pc \in {"block", "left"}
    /\ guard.elapsed <= MaxSeconds
    /\ guard' = [guard EXCEPT !.elapsed = guard.elapsed + 1,
                              !.alarm = IF guard.alarm > 0 THEN guard.alarm - 1 ELSE 0,
                              !.pending = guard.pending \/ guard.alarm = 1]
    /\ UNCHANGED <<clock, store, index, turnVars, consensusVars, superVars, workerVars,
                   search, callerVars>>

\* timeout.py 12-13 and 19-20: the interpreter runs handle_timeout in the
\* main thread, TimeoutError is raised where the thread is, and when that
\* is inside the block __exit__ runs on the way out.
HandleTimeout ==
    /\ guard.pending
    /\ guard' = [guard EXCEPT !.pending = FALSE, !.error = TRUE,
                              !.pc = "left",
                              !.alarm = IF guard.pc = "block" THEN 0 ELSE guard.alarm,
                              !.ended = IF guard.pc = "block" THEN guard.elapsed
                                        ELSE guard.ended]
    /\ UNCHANGED <<clock, store, index, turnVars, consensusVars, superVars, workerVars,
                   search, callerVars>>

\* Variant: __exit__ leaves the alarm as it is.
Leave_no_cancel ==
    /\ guard.pc = "block"
    /\ ~guard.pending
    /\ guard' = [guard EXCEPT !.pc = "left", !.ended = guard.elapsed]
    /\ UNCHANGED <<clock, store, index, turnVars, consensusVars, superVars, workerVars,
                   search, callerVars>>

\* timeout.py 19-20: the block comes to its end and __exit__ cancels the
\* alarm.  A pending SIGALRM is handled before the block can end.
Leave ==
    /\ guard.pc = "block"
    /\ ~guard.pending
    /\ guard' = [guard EXCEPT !.pc = "left", !.alarm = 0, !.ended = guard.elapsed]
    /\ UNCHANGED <<clock, store, index, turnVars, consensusVars, superVars, workerVars,
                   search, callerVars>>

TimeoutNext ==
    \/ \E s \in Deadlines : Enter(s)
    \/ Second
    \/ HandleTimeout
    \/ Leave

\* The interpreter runs the handler of a pending signal as soon as the main
\* thread is back in Python code.
TimeoutFairness == WF_vars(HandleTimeout)

TimeoutSpec == Init /\ [][TimeoutNext]_vars /\ TimeoutFairness

\* C28: a block under Timeout(s) that is still running when s seconds have
\* passed since the guard was entered gets a TimeoutError; a block that has
\* been left got a TimeoutError exactly when it had not ended before the
\* s seconds were over, so a block that ends earlier gets none, neither
\* while it runs nor after it.
C28_DeadlineKept ==
    /\ [](guard.pc = "left" => (guard.error <=> guard.ended >= guard.seconds))
    /\ [](guard.pc = "block" => ~guard.error)
    /\ ((guard.pc = "block" /\ guard.elapsed >= guard.seconds) ~> guard.error)

C28_Witness ==
    /\ guard.pc = "left"
    /\ guard.error
    /\ guard.seconds = 2
    /\ guard.ended = 3
    /\ guard.elapsed = 3
    /\ guard.entered = 2

(***************************************************************************)
(* The order of the steps of a turn.                                       *)
(***************************************************************************)
\* The steps of run_conversation from one position to the next.  A turn
\* starts from no turn, or after a turn that completed or failed;
\* "Persisted" is the position between update_conversation and the return.
TurnTransitions ==
    { <<"Idle", "Start">>, <<"Completed", "Start">>, <<"Failed", "Start">>,
      <<"Start", "ModelCalled">>, <<"Start", "Failed">>,
      <<"ModelCalled", "ToolRequested">>, <<"ModelCalled", "Persisted">>,
      <<"ModelCalled", "Failed">>,
      <<"ToolRequested", "ToolDispatched">>, <<"ToolRequested", "Failed">>,
      <<"ToolDispatched", "FinalModelCalled">>, <<"ToolDispatched", "Failed">>,
      <<"FinalModelCalled", "Persisted">>, <<"FinalModelCalled", "Failed">>,
      <<"Persisted", "Completed">> }

\* The step takes the turn to position p.
Reaches(p) == pc' = p /\ pc # p

C30_Step ==
    /\ pc' # pc => <<pc, pc'>> \in TurnTransitions
    \* the user message is in the history before the first model call
    /\ Reaches("Start")
          => /\ modelCalls' = 0
             /\ messages'[Len(messages')] = UserMsg
    /\ modelCalls' # modelCalls /\ pc # "Start" /\ ~Reaches("Start")
          => /\ pc = "ToolDispatched"
             /\ modelCalls = 1
    /\ modelCalls' # modelCalls /\ pc = "Start"
          => /\ modelCalls = 0
             /\ \E i \in 1..Len(messages) : messages[i] = UserMsg
             /\ dispatched = <<>>
    \* the tool runs after the first model call and before the second
    /\ dispatched' # dispatched /\ ~Reaches("Start")
          => /\ pc = "ToolRequested"
             /\ modelCalls = 1
             /\ modelCalls' = 1
             /\ dispatched = <<>>
    \* a second model call is made exactly when a tool was requested
    /\ Reaches("Persisted")
          => /\ updateCalls' = updateCalls + 1
             /\ modelCalls' = modelCalls
             /\ modelCalls = IF NoTool(response) THEN 1 ELSE 2
             /\ Len(dispatched) = IF NoTool(response) THEN 0 ELSE 1
    \* the update of the store is the last step before the return
    /\ Reaches("Completed")
          => /\ pc = "Persisted"
             /\ updateCalls = 1
             /\ store' = store
             /\ index' = index
             /\ messages' = messages
             /\ modelCalls' = modelCalls
             /\ returned' # NoReturn
    /\ returned' # returned /\ ~Reaches("Start") => Reaches("Completed")

\* C30: a turn goes Start, ModelCalled, Completed, or Start, ModelCalled,
\* ToolRequested, ToolDispatched, FinalModelCalled, Completed, or ends in
\* Failed from one of these positions: the user message is in the history
\* before the first model call, the tool is dispatched after the first
\* model call and before the second, the second model call is made exactly
\* when a tool was requested, and update_conversation is the last step
\* before the return.
C30_TurnOrder == [][C30_Step]_vars

C30_Witness ==
    /\ pc = "Completed"
    /\ turns = 2
    /\ modelCalls = 2
    /\ Len(dispatched) = 1
    /\ updateCalls = 1
    /\ returned.text = FinalContent
    /\ preStore[conversation_id].exists

\* The messages a turn produces, in the order it produces them: the user
\* message, the model response and, after a tool call, the announcement,
\* the tool result and the final answer.
Produced ==
    << UserMsg, ResponseMsg(response) >>
    \o (IF NoTool(response)
        THEN <<>>
        ELSE ToolMessages(tool_call, result)
             \o << Msg("assistant", final_response, <<>>) >>)

\* C31: a turn run on a conversation id persists the message sequence that
\* was persisted for the id when the turn started as a prefix of what it
\* writes, followed by the messages of the turn in the order they were
\* produced (after the system message when the history was empty).
C31_AppendOnly ==
    (pc \in {"Persisted", "Completed"} /\ arg # NoId)
    => LET before == load_conversation(preStore, arg)
           now == Persisted(arg)
           n == Len(before)
       IN /\ Len(now) > n
          /\ SubSeq(now, 1, n) = before
          /\ SubSeq(now, n + 1, Len(now)) =
                (IF n = 0 THEN <<SystemMsg>> ELSE <<>>) \o Produced

C31_Witness ==
    /\ pc = "Completed"
    /\ arg # NoId
    /\ turns = 2
    /\ ~NoTool(response)
    /\ Len(preStore[arg].messages) >= 3
    /\ Len(Persisted(arg)) = Len(preStore[arg].messages) + 5

(***************************************************************************)
(* Turns that each start a new conversation: run_conversation is called    *)
(* without an id, llm.py 640-643, by callers that run one after the other. *)
(***************************************************************************)
NewConversationNext ==
    \/ Tick
    \/ Begin(NoId)
    \/ \E r \in Responses : FirstModelCall(r)
    \/ FirstModelCallFails
    \/ RequestTool
    \/ \E env \in EnvOutcomes : Dispatch(env)
    \/ SecondModelCall
    \/ SecondModelCallFails
    \/ \E summary \in Summaries : Update(summary)
    \/ \E stage \in {"record", "index"} : UpdateFails(stage)
    \/ Return

NewConversationSpec == Init /\ [][NewConversationNext]_vars

\* C33 (as stated): a turn that starts a new conversation gets an id that
\* no conversation created before it has, also within the same second: the
\* id it generates is not the id of a record already in the store, so the
\* turn overwrites no record of an earlier conversation.
C33_DistinctIds ==
    (pc # "Idle" /\ arg = NoId) => ~preStore[conversation_id].exists

C35_NoAlarmLeft ==
    /\ [](guard.pc = "left" => (guard.alarm = 0 /\ ~guard.pending))
    /\ [][(guard.pc = "left" /\ guard'.pc = "left")
            => guard'.error = guard.error]_vars

C35_Witness ==
    /\ guard.pc = "left"
    /\ ~guard.error
    /\ guard.entered = 2
    /\ guard.seconds = 2
    /\ guard.ended = 1
    /\ guard.elapsed = 3

\* C32: fan-in is complete before anything proceeds.  When
\* call_consensus_query has left its collecting loop, each of the four
\* backend calls has ended and its response or error is filed under its
\* model; in call_superconsensus a selection call is submitted, running or
\* ended only when each of the eight round-1 calls has ended and its
\* response or error is filed under its call name.
C32_FanInComplete ==
    /\ cq_pc \in {"formatted", "returned", "failed"}
          => \A b \in BackendSet :
                /\ future[b] = "collected"
                /\ responses[b] = future_result[b]
                /\ responses[b].kind \in {"response", "error"}
    /\ (Round2Submitted \/ \E n \in SelectionSet : sel_future[n] # "unsubmitted")
          => /\ DOMAIN sc_responses = CallNames
             /\ \A c \in CallNames :
                   sc_responses[c].kind \in {"response", "error"}

C32_Witness ==
    /\ sc_pc = "round2"
    /\ sel_future["best_grok"] = "done"
    /\ sel_future["best_gpt"] = "running"
    /\ sc_responses["claude_2"].kind = "error"
    /\ sc_responses["gpt_1"].kind = "response"
    /\ sc_next = 1

(***************************************************************************)
(* A fan-out tool under its Timeout guard: run_conversation dispatches     *)
(* call_consensus_query under Timeout(900) and call_superconsensus under   *)
(* Timeout(1800) (llm.py 710-715).  The main thread submits the calls to a *)
(* ThreadPoolExecutor and collects inside the with block of the pool;      *)
(* leaving that block, normally or by an exception, runs                   *)
(* shutdown(wait=True), which joins the workers.  SIGALRM is handled in    *)
(* the main thread: handle_timeout raises TimeoutError where the main      *)
(* thread is, also inside a wait or a join, which the signal interrupts.   *)
(***************************************************************************)
FanOutTools == {"call_consensus_query", "call_superconsensus"}

\* The calls of the first pool of a tool: llm.py 160-165 and 203-212.
FirstPool(tool) ==
    IF tool = "call_consensus_query" THEN BackendSet ELSE CallNames

\* llm.py 710-715, timeout.py 15-17, llm.py 170-172 and 217-218: the guard
\* is entered and every call is submitted to a worker of its own.
ToolEnter(tool) ==
    /\ pool.pc \in {"outside", "returned", "failed"}
    /\ pool.running = {}
    /\ pool' = [NoPool EXCEPT !.tool = tool, !.pc = "round1",
                              !.running = FirstPool(tool), !.alarm = "armed"]
    /\ UNCHANGED <<clock, store, index, turnVars, consensusVars, superVars,
                   workerVars, search, guard, managerVars>>

\* A worker call ends (llm.py 77-154: a backend function returns a response
\* or its error payload).  Workers are threads of their own: a call also
\* ends after the main thread has left the tool.
WorkerEnds(c) ==
    /\ c \in pool.running
    /\ pool' = [pool EXCEPT !.running = pool.running \ {c}]
    /\ UNCHANGED <<clock, store, index, turnVars, consensusVars, superVars,
                   workerVars, search, guard, managerVars>>

\* llm.py 175-181 and 220-227: as_completed has handed out every future,
\* the loop is over and the pool block is left with no call running.
\* call_consensus_query goes on to format its text; call_superconsensus
\* submits the four selection calls to a second pool (llm.py 286-292).
Round1Over ==
    /\ pool.pc = "round1"
    /\ pool.running = {}
    /\ pool' = IF pool.tool = "call_consensus_query"
               THEN [pool EXCEPT !.pc = "formatting"]
               ELSE [pool EXCEPT !.pc = "round2", !.running = SelectionSet,
                                 !.next = 1]
    /\ UNCHANGED <<clock, store, index, turnVars, consensusVars, superVars,
                   workerVars, search, guard, managerVars>>

\* llm.py 295-297: future.result(timeout=600) of the selection the loop
\* waits for returns, the call having ended.
PoolTakeSelection ==
    /\ pool.pc = "round2"
    /\ pool.next <= Len(Selections)
    /\ Selections[pool.next] \notin pool.running
    /\ pool' = [pool EXCEPT !.next = pool.next + 1]
    /\ UNCHANGED <<clock, store, index, turnVars, consensusVars, superVars,
                   workerVars, search, guard, managerVars>>

\* llm.py 297-300: the wait of 600 seconds is over with the call still
\* running; the placeholder is filed and the loop goes on.
PoolSelectionTimesOut ==
    /\ pool.pc = "round2"
    /\ pool.next <= Len(Selections)
    /\ Selections[pool.next] \in pool.running
    /\ pool' = [pool EXCEPT !.next = pool.next + 1]
    /\ UNCHANGED <<clock, store, index, turnVars, consensusVars, superVars,
                   workerVars, search, guard, managerVars>>

\* llm.py 294-300: the loop over the four futures is over; the with block
\* of the second pool is left and shutdown(wait=True) joins the workers.
Round2Over ==
    /\ pool.pc = "round2"
    /\ pool.next > Len(Selections)
    /\ pool' = [pool EXCEPT !.pc = "exit2"]
    /\ UNCHANGED <<clock, store, index, turnVars, consensusVars, superVars,
                   workerVars, search, guard, managerVars>>

\* The join of the second pool returns: every selection call has ended.
PoolExit ==
    /\ pool.pc = "exit2"
    /\ pool.running = {}
    /\ pool' = [pool EXCEPT !.pc = "formatting"]
    /\ UNCHANGED <<clock, store, index, turnVars, consensusVars, superVars,
                   workerVars, search, guard, managerVars>>

\* llm.py 183-197 and 302-322, timeout.py 19-20: the text is formatted and
\* returned, and the guard is left, which cancels the alarm.
ToolReturns ==
    /\ pool.pc = "formatting"
    /\ pool' = [pool EXCEPT !.pc = "returned", !.alarm = "off"]
    /\ UNCHANGED <<clock, store, index, turnVars, consensusVars, superVars,
                   workerVars, search, guard, managerVars>>

\* What the TimeoutError does, by the place it is raised at: "unwinds"
\* (raised in a collecting loop outside its try: the pool block is left by
\* the exception and joins the workers), "swallowed" (raised inside the try
\* of a collecting loop: except Exception files an error entry and the loop
\* goes on; in round 2 the main thread waits inside that try), "leaves"
\* (raised inside the join of the second pool or after the pools: nothing
\* is between it and run_conversation).
AlarmOutcomes ==
    IF pool.pc = "round1"
    THEN {"unwinds"} \cup (IF pool.running # FirstPool(pool.tool)
                           THEN {"swallowed"} ELSE {})
    ELSE IF pool.pc = "round2"
    THEN {"unwinds"} \cup (IF pool.next <= Len(Selections)
                           THEN {"swallowed"} ELSE {})
    ELSE {"leaves"}

\* timeout.py 12-13: the alarm of the guard runs out and handle_timeout
\* raises TimeoutError in the main thread.
AlarmFires(outcome) ==
    /\ pool.alarm = "armed"
    /\ pool.pc \in {"round1", "round2", "exit2", "formatting"}
    /\ outcome \in AlarmOutcomes
    /\ pool' = [pool EXCEPT
                  !.alarm = "fired",
                  !.at = pool.pc,
                  !.caught = pool.running,
                  !.swallowed = (outcome = "swallowed"),
                  !.next = IF outcome = "swallowed" /\ pool.pc = "round2"
                           THEN pool.next + 1 ELSE pool.next,
                  !.pc = CASE outcome = "unwinds" -> "unwinding"
                           [] outcome = "swallowed" -> pool.pc
                           [] outcome = "leaves" -> "failed",
                  !.left = IF outcome = "leaves" THEN pool.running ELSE {}]
    /\ UNCHANGED <<clock, store, index, turnVars, consensusVars, superVars,
                   workerVars, search, guard, managerVars>>

\* Variant: the exception leaves the pool block without the join.
Unwound_no_wait ==
    /\ pool.pc = "unwinding"
    /\ pool' = [pool EXCEPT !.pc = "failed", !.left = pool.running]
    /\ UNCHANGED <<clock, store, index, turnVars, consensusVars, superVars,
                   workerVars, search, guard, managerVars>>

\* The join of the pool block that the exception is leaving returns: the
\* TimeoutError leaves the tool, the guard and run_conversation.
Unwound ==
    /\ pool.pc = "unwinding"
    /\ pool.running = {}
    /\ pool' = [pool EXCEPT !.pc = "failed", !.left = pool.running]
    /\ UNCHANGED <<clock, store, index, turnVars, consensusVars, superVars,
                   workerVars, search, guard, managerVars>>

DeadlineNext ==
    \/ \E tool \in FanOutTools : ToolEnter(tool)
    \/ \E c \in BackendSet \cup CallNames \cup SelectionSet : WorkerEnds(c)
    \/ Round1Over
    \/ PoolTakeSelection
    \/ PoolSelectionTimesOut
    \/ Round2Over
    \/ PoolExit
    \/ ToolReturns
    \/ \E outcome \in {"unwinds", "swallowed", "leaves"} : AlarmFires(outcome)
    \/ Unwound

DeadlineSpec == Init /\ [][DeadlineNext]_vars

\* C36 (as stated): when the deadline fires while the tool has worker
\* calls running, the TimeoutError leaves the tool call, and the turn
\* fails, only when every worker call has ended.
C36_FaultWaitsForWorkers ==
    pool.pc = "failed" => pool.left = {}

\* C36 (amended): a TimeoutError raised in a collecting loop outside its
\* try leaves the tool call only when every worker call of the pool has
\* ended; one raised inside the try of a collecting loop does not leave
\* the tool call at all; one raised while call_superconsensus is leaving
\* its second pool with selection calls still running (their wait of 600
\* seconds timed out) leaves the tool call at once, with those calls
\* running.
C36_FaultLeaves ==
    /\ pool.pc = "failed"
          => /\ pool.alarm = "fired"
             /\ ~pool.swallowed
             /\ pool.at \in {"round1", "round2"} => pool.left = {}
             /\ pool.left # {}
                   => /\ pool.tool = "call_superconsensus"
                      /\ pool.at = "exit2"
                      /\ pool.left = pool.caught
                      /\ pool.left \subseteq SelectionSet
    /\ pool.pc = "unwinding" => pool.at \in {"round1", "round2"}
    /\ (pool.alarm = "fired" /\ pool.swallowed)
          => pool.pc \in {"round1", "round2", "exit2", "formatting", "returned"}
    /\ pool.tool = "call_consensus_query" => pool.left = {}

C36_Witness ==
    /\ pool.pc = "failed"
    /\ pool.tool = "call_consensus_query"
    /\ pool.at = "round1"
    /\ pool.caught = {"grok", "claude"}
    /\ pool.left = {}
    /\ pool.running = {}

(***************************************************************************)
(* Turns run outside the main thread: VoiceConversationManager starts a    *)
(* thread for every conversation (parallel_client.py 29-41) and the thread *)
(* calls run_conversation with the id of the conversation (line 51).       *)
(* signal.signal, the first statement of Timeout.__enter__, raises         *)
(* ValueError in every thread but the main one, before the alarm is set    *)
(* and before the handler is called.                                       *)
(***************************************************************************)
\* llm.py 691-751 in a thread of the manager: every branch of a registered
\* name enters its Timeout guard first; the else branch has no guard.
ThreadDispatch ==
    /\ pc = "ToolRequested"
    /\ IF tool_call.name \in Registered
       THEN /\ failure' = "ValueError"
            /\ pc' = "Failed"
            /\ UNCHANGED <<dispatched, store, index, result, tool_event>>
       ELSE LET o == ToolRun(tool_call, "ok", store, index) IN
            /\ dispatched' = Append(dispatched, tool_call.name)
            /\ store' = o.store
            /\ index' = o.index
            /\ result' = o.result
            /\ tool_event' = o.event
            /\ failure' = o.raised
            /\ pc' = "ToolDispatched"
    /\ UNCHANGED <<clock, turns, arg, conversation_id, messages, response,
                   tool_call, final_response, modelCalls, updateCalls,
                   returned, preStore, preIndex,
                   consensusVars, superVars, workerVars, callVars>>

ThreadTurnNext ==
    \/ Tick
    \/ \E a \in Ids : Begin(a)
    \/ \E r \in Responses : FirstModelCall(r)
    \/ FirstModelCallFails
    \/ RequestTool
    \/ ThreadDispatch
    \/ SecondModelCall
    \/ SecondModelCallFails
    \/ \E summary \in Summaries : Update(summary)
    \/ \E stage \in {"record", "index"} : UpdateFails(stage)
    \/ Return

ThreadTurnSpec == Init /\ [][ThreadTurnNext]_vars

\* C34 (as stated): a turn run in a thread of the manager whose response
\* requests a registered tool dispatches the tool under its guard and goes
\* on like a turn of the main thread: the guard raises nothing of its own,
\* and beyond the dispatch the tool has been called and, when the turn has
\* returned, its result is the tool message of the persisted conversation.
C34_ThreadTurnDispatches ==
    (~NoTool(response) /\ tool_call.name \in Registered
        /\ pc \notin {"Idle", "Start", "ModelCalled", "ToolRequested"})
    => /\ failure # "ValueError"
       /\ dispatched = <<tool_call.name>>
       /\ pc = "Completed"
             => \E i \in 1..Len(Persisted(conversation_id)) :
                   Persisted(conversation_id)[i] = Msg("tool", result, <<>>)

(***************************************************************************)
(* The summarization call of the index (conversation_index.py 32-61): the  *)
(* request to the model sits in try/except Exception, and a failure of it  *)
(* comes back as a text.  add_conversation_to_index (63-90) has no handler *)
(* of its own: an exception leaving summarize_conversation would leave     *)
(* update_conversation after the record has been written.                  *)
(***************************************************************************)
ErrorSummary == "Error generating summary"
SummaryOutcomes == {"answers", "fails"}

\* Variant: the failure of the request leaves summarize_conversation.
summarize_conversation_uncaught(outcome) ==
    [raised |-> outcome = "fails", text |-> "summary"]

\* conversation_index.py 53-61
summarize_conversation(outcome) ==
    [raised |-> FALSE,
     text |-> IF outcome = "fails" THEN ErrorSummary ELSE "summary"]

\* update_conversation(conversation_id, messages) with the summarization
\* call answering or failing: llm.py 795 and 802, conversations.py 42-59,
\* conversation_index.py 63-90.
SummaryUpdate(outcome) ==
    /\ ReadyToUpdate
    /\ updateCalls' = updateCalls + 1
    /\ store' = update_conversation(store, conversation_id, messages)
    /\ LET summary == summarize_conversation(outcome) IN
       IF summary.raised
       THEN /\ failure' = "SummaryError"
            /\ pc' = "Failed"
            /\ index' = index
       ELSE /\ index' = add_conversation_to_index(index, conversation_id,
                                                  messages, summary.text)
            /\ pc' = "Persisted"
            /\ failure' = failure
    /\ UNCHANGED <<clock, turns, arg, conversation_id, messages, response,
                   tool_call, result, tool_event, final_response, dispatched, modelCalls,
                   returned, preStore, preIndex,
                   consensusVars, superVars, workerVars, callVars>>

\* The turn loop with the two outcomes of the summarization call; the
\* tool runs undisturbed (its faults and deadlines are in Next).
SummaryNext ==
    \/ Tick
    \/ \E a \in {NoId} \cup Ids : Begin(a)
    \/ \E r \in Responses : FirstModelCall(r)
    \/ FirstModelCallFails
    \/ RequestTool
    \/ Dispatch("ok")
    \/ SecondModelCall
    \/ SecondModelCallFails
    \/ \E outcome \in SummaryOutcomes : SummaryUpdate(outcome)
    \/ \E stage \in {"record", "index"} : UpdateFails(stage)
    \/ Return

SummarySpec == Init /\ [][SummaryNext]_vars

\* C40: a failure of the summarization call fails no update.  No turn ends
\* with the fault of the summarization call; when update_conversation has
\* returned, the record holds the messages of the turn and the index holds
\* exactly one entry of the id, with the number of those messages as
\* message_count and the summary or the error text as summary; and the
\* turn that has returned has returned its answer.
C40_SummaryFailureTolerated ==
    /\ failure # "SummaryError"
    /\ pc \in {"Persisted", "Completed"}
          => /\ Persisted(conversation_id) = messages
             /\ Cardinality(EntriesOf(conversation_id)) = 1
             /\ \A i \in EntriesOf(conversation_id) :
                   /\ index[i].message_count = Len(messages)
                   /\ index[i].summary \in {"summary", ErrorSummary}
    /\ pc = "Completed"
          => returned = [text |-> ReturnText(response, final_response),
                         id |-> conversation_id]

C40_Witness ==
    /\ pc = "Completed"
    /\ turns = 2
    /\ preStore[conversation_id].exists
    /\ \E i \in 1..Len(preIndex) :
          preIndex[i].id = conversation_id /\ preIndex[i].summary = "summary"
    /\ \E i \in EntriesOf(conversation_id) :
          /\ index[i].summary = ErrorSummary
          /\ index[i].message_count = Len(messages)
    /\ returned.text = FinalContent

(***************************************************************************)
(* VoiceConversationManager (parallel_client.py 13-69).  start_conversation*)
(* is called by the listening thread for every recorded command (line 126) *)
(* and by a conversation thread that finds a request in the queue when its *)
(* conversation is over (line 69).  No lock is taken anywhere: the test of *)
(* line 24 and the put of line 26 or the insertion of lines 35-38 are      *)
(* separate steps, and so are the test of line 67 and the get of line 68.  *)
(***************************************************************************)
\* parallel_client.py 22-24: the id is made from the second of the clock
\* and the size of the dictionary is compared with the maximum.
Called(t, a) ==
    [thread[t] EXCEPT
        !.pc = IF Cardinality(DOMAIN active_conversations) >= max_concurrent
               THEN "put" ELSE "insert",
        !.audio = a,
        !.cid = clock]

\* Where a caller of start_conversation is when the call has returned.
AfterCall(t) == IF t = Listener THEN "listening" ELSE "done"

\* A second passes while the manager runs.
ManagerTick ==
    /\ clock < MaxTime
    /\ clock' = clock + 1
    /\ UNCHANGED <<store, index, turnVars, consensusVars, superVars,
                   workerVars, callVars>>

\* parallel_client.py 112-126 and 20-24: the listening thread has recorded
\* a command and calls start_conversation.  Recording a command takes
\* seconds (speech.py 172-209 stops after 4.25 seconds of silence), so two
\* calls of the listening thread are never made in the same second.
Listen ==
    /\ thread[Listener].pc = "listening"
    /\ heard < MaxRequests
    /\ heard = 0 \/ clock > thread[Listener].cid
    /\ heard' = heard + 1
    /\ thread' = [thread EXCEPT ![Listener] = Called(Listener, heard + 1)]
    /\ UNCHANGED <<max_concurrent, active_conversations, conversation_queue>>
    /\ UNCHANGED <<clock, store, index, turnVars, consensusVars, superVars,
                   workerVars, search, guard, pool>>

\* parallel_client.py 25-27: the request is put in the queue.
Put(t) ==
    /\ thread[t].pc = "put"
    /\ conversation_queue' = Append(conversation_queue, thread[t].audio)
    /\ thread' = [thread EXCEPT ![t].pc = AfterCall(t)]
    /\ UNCHANGED <<max_concurrent, active_conversations, heard>>
    /\ UNCHANGED <<clock, store, index, turnVars, consensusVars, superVars,
                   workerVars, search, guard, pool>>

\* parallel_client.py 29-41: the thread of the conversation is created,
\* entered in the dictionary under the id (an entry that is there under the
\* same id is replaced) and started.
Insert(t) ==
    /\ thread[t].pc = "insert"
    /\ active_conversations' =
          DictPut(active_conversations, thread[t].cid, thread[t].audio)
    /\ thread' = [thread EXCEPT
                    ![t].pc = AfterCall(t),
                    ![thread[t].audio] = [NoThread EXCEPT !.pc = "running",
                                                         !.id = thread[t].cid]]
    /\ UNCHANGED <<max_concurrent, conversation_queue, heard>>
    /\ UNCHANGED <<clock, store, index, turnVars, consensusVars, superVars,
                   workerVars, search, guard, pool>>

\* parallel_client.py 43-64: the conversation is over, with an answer or
\* with the error sentence, and the entry under its id is deleted.
ConversationEnds(r) ==
    /\ thread[r].pc = "running"
    /\ active_conversations' =
          [k \in DOMAIN active_conversations \ {thread[r].id} |->
              active_conversations[k]]
    /\ thread' = [thread EXCEPT ![r].pc = "check_queue"]
    /\ UNCHANGED <<max_concurrent, conversation_queue, heard>>
    /\ UNCHANGED <<clock, store, index, turnVars, consensusVars, superVars,
                   workerVars, search, guard, pool>>

\* parallel_client.py 67: if not self.conversation_queue.empty()
CheckQueue(r) ==
    /\ thread[r].pc = "check_queue"
    /\ thread' = [thread EXCEPT
                    ![r].pc = IF conversation_queue = <<>> THEN "done" ELSE "get"]
    /\ UNCHANGED <<max_concurrent, active_conversations, conversation_queue, heard>>
    /\ UNCHANGED <<clock, store, index, turnVars, consensusVars, superVars,
                   workerVars, search, guard, pool>>

\* parallel_client.py 68-69 and 20-24: get() returns the oldest request (it
\* waits while the queue is empty) and start_conversation is called with it.
GetQueued(r) ==
    /\ thread[r].pc = "get"
    /\ conversation_queue # <<>>
    /\ conversation_queue' = Tail(conversation_queue)
    /\ thread' = [thread EXCEPT ![r] = Called(r, Head(conversation_queue))]
    /\ UNCHANGED <<max_concurrent, active_conversations, heard>>
    /\ UNCHANGED <<clock, store, index, turnVars, consensusVars, superVars,
                   workerVars, search, guard, pool>>

ManagerSteps ==
    \/ \E t \in Callers : Put(t)
    \/ \E t \in Callers : Insert(t)
    \/ \E r \in Requests : ConversationEnds(r)
    \/ \E r \in Requests : CheckQueue(r)
    \/ \E r \in Requests : GetQueued(r)

ManagerNext ==
    \/ ManagerTick
    \/ Listen
    \/ ManagerSteps

\* parallel_client.py 14-18 and 86: the manager as constructed, with the
\* maximum it is given.
ManagerInit ==
    /\ InitProgram
    /\ search = NoSearch
    /\ guard = NoGuard
    /\ pool = NoPool
    /\ \E m \in 1..MaxConcurrent : InitManager(m)

ManagerSpec == ManagerInit /\ [][ManagerNext]_vars

\* Every thread that can take a step takes it: the threads run, and every
\* conversation comes to its end.  Nothing obliges a user to speak.
ManagerFairness ==
    /\ \A t \in Callers : WF_vars(Put(t)) /\ WF_vars(Insert(t))
    /\ \A r \in Requests :
          /\ WF_vars(ConversationEnds(r))
          /\ WF_vars(CheckQueue(r))
          /\ WF_vars(GetQueued(r))

ManagerLiveSpec == ManagerSpec /\ ManagerFairness

\* The conversations that are running.
Active == {r \in Requests : thread[r].pc = "running"}

\* C38 (as stated): the number of active conversations never exceeds the
\* maximum: neither the number of conversation threads that are running
\* nor the number of entries of active_conversations.
C38_AtMostMax ==
    /\ Cardinality(Active) <= max_concurrent
    /\ Cardinality(DOMAIN active_conversations) <= max_concurrent

\* Request r waits in the queue.
Queued(r) == \E i \in 1..Len(conversation_queue) : conversation_queue[i] = r

\* C39 (as stated): every request that start_conversation put in the queue
\* is eventually started as a conversation.
C39_QueuedIsStarted ==
    \A r \in Requests : Queued(r) ~> (thread[r].pc # "unborn")

====
